---------------------------- MODULE Spec2Model ----------------------------
(***************************************************************************)
(* Model of the chain-sync service (src/src/services/chain-sync.ts) of the *)
(* Sovereign Protocol backend: the SovereignState decoder, the upsert into *)
(* the Sovereign collection, the retrying fetch, one sync cycle and the    *)
(* polling scheduler.                                                      *)
(*                                                                         *)
(* Conventions                                                             *)
(*  - a Buffer is a sequence of bytes 0..255; offsets are 0-based as in    *)
(*    the source, so byte o of the source is data[o + 1] here;             *)
(*  - a JS string is the sequence of its character codes (the inputs are   *)
(*    ASCII, for which utf8 decoding maps each byte to one code);          *)
(*  - a bigint / number is an integer; the inputs stay below 2^31, where   *)
(*    Number(bigint) is exact;                                             *)
(*  - a Date is its epoch value in milliseconds;                           *)
(*  - a value that may be undefined or null is a record tagged by k;       *)
(*  - a document is a function from the names of its fields to values.     *)
(***************************************************************************)
EXTENDS Integers, Sequences, FiniteSets, TLC

---------------------------------------------------------------------------
(* Generic helpers *)

Min(a, b) == IF a <= b THEN a ELSE b

Max(a, b) == IF a >= b THEN a ELSE b

RECURSIVE Pow2(_)
Pow2(n) == IF n <= 0 THEN 1 ELSE 2 * Pow2(n - 1)

Range(s) == { s[i] : i \in DOMAIN s }

\* Little-endian value of a byte sequence (Horner form).
RECURSIVE LEValue(_)
LEValue(bytes) ==
    IF bytes = <<>> THEN 0 ELSE Head(bytes) + 256 * LEValue(Tail(bytes))

\* Two's-complement little-endian value of a byte sequence.
LESigned(bytes) ==
    IF bytes[Len(bytes)] >= 128
    THEN -(1 + LEValue([i \in DOMAIN bytes |-> 255 - bytes[i]]))
    ELSE LEValue(bytes)

\* The w little-endian bytes of n >= 0.
RECURSIVE LEBytes(_, _)
LEBytes(n, w) ==
    IF w = 0 THEN <<>> ELSE <<n % 256>> \o LEBytes(n \div 256, w - 1)

\* The w two's-complement little-endian bytes of n.
LEBytesSigned(n, w) ==
    IF n >= 0 THEN LEBytes(n, w)
    ELSE LET c == LEBytes(-n - 1, w) IN [i \in 1..w |-> 255 - c[i]]

Zeros(n) == [i \in 1..n |-> 0]

\* bigint.prototype.toString(): the decimal digits, as character codes.
RECURSIVE DecDigits(_)
DecDigits(n) ==
    IF n < 10 THEN <<48 + n>> ELSE DecDigits(n \div 10) \o <<48 + (n % 10)>>

toString(n) == IF n < 0 THEN <<45>> \o DecDigits(-n) ELSE DecDigits(n)

\* Variant: a string is returned as its bytes are, trailing NULs included.
KeepTrailingNuls(s) == s

\* String.prototype.replace(/\0+$/, ''): drop the trailing NULs.
RECURSIVE StripTrailingNuls(_)
StripTrailingNuls(s) ==
    IF s = <<>> THEN s
    ELSE IF s[Len(s)] = 0 THEN StripTrailingNuls(SubSeq(s, 1, Len(s) - 1))
    ELSE s

\* String.prototype.includes
Includes(s, t) ==
    \E i \in 0..(Len(s) - Len(t)) : SubSeq(s, i + 1, i + Len(t)) = t

\* Possibly-absent values.
Undefined == [k |-> "undefined"]

Null == [k |-> "null"]

Some(x) == [k |-> "some", v |-> x]

---------------------------------------------------------------------------
(* Constants of chain-sync.ts *)

DISCRIMINATOR == <<42, 162, 40, 206, 227, 8, 23, 212>>

DISCRIMINATOR_SIZE == 8

\* Variant: the status enum of the Sovereign schema used as the table.
SchemaStatusLabels ==
    <<"Bonding", "Recovery", "Active", "Failed", "Unwound">>

STATUS_LABELS ==
    << "Bonding", "Finalizing", "PoolCreated", "Recovery", "Active",
       "Unwinding", "Unwound", "Failed", "Halted", "Retired" >>

TYPE_LABELS == << "TokenLaunch", "BYOToken" >>

MAX_RETRIES == 3

BASE_DELAY_MS == 5000

WARMUP_MS == 10000

DEFAULT_INTERVAL_MS == 60000

SECONDS_PER_DAY == 86400

TOKEN_DECIMALS == 9

---------------------------------------------------------------------------
(* Buffer helpers.  Each CanRead* is the condition under which the Node    *)
(* Buffer method (or the PublicKey constructor) does not throw.            *)

CanRead(buf, o, n) == o >= 0 /\ o + n <= Len(buf)

Bytes(buf, o, n) == SubSeq(buf, o + 1, o + n)

\* Buffer.prototype.subarray(start, end): clamped, never throws.
Subarray(buf, start, end) ==
    SubSeq(buf, Min(start, Len(buf)) + 1, Min(end, Len(buf)))

readU8(buf, o) == buf[o + 1]

readU16LE(buf, o) == LEValue(Bytes(buf, o, 2))

readU32LE(buf, o) == LEValue(Bytes(buf, o, 4))

readU64LE(buf, o) == LEValue(Bytes(buf, o, 8))

readI64LE(buf, o) == LESigned(Bytes(buf, o, 8))

readBool(buf, o) == buf[o + 1] # 0

\* new PublicKey(buf.subarray(o, o + 32)): the constructor takes the bytes
\* as a big-endian number and rejects only more than 32 of them, so fewer
\* bytes make the key whose leading bytes are zero.
readPubkey(buf, o) ==
    LET b == Subarray(buf, o, o + 32) IN Zeros(32 - Len(b)) \o b

\* [string value, total bytes consumed]
readString(buf, o) ==
    LET len == readU32LE(buf, o)
        str == StripTrailingNuls(Subarray(buf, o + 4, o + 4 + len))
    IN  <<str, 4 + len>>

\* Variant: an Option<i64> takes 9 bytes whether or not it is present.
readOptionI64FixedWidth(buf, o) ==
    LET tag == readU8(buf, o)
    IN  IF tag = 0 THEN <<Null, 9>> ELSE <<Some(readI64LE(buf, o + 1)), 9>>

\* [value or null, bytes consumed]
readOptionI64(buf, o) ==
    LET tag == readU8(buf, o)
    IN  IF tag = 0 THEN <<Null, 1>> ELSE <<Some(readI64LE(buf, o + 1)), 9>>

\* PublicKey.prototype.toBase58: an injective encoding of the 32 bytes.
toBase58(key) == <<"base58", key>>

---------------------------------------------------------------------------
(* deserializeSovereignState: the sequence of reads and skips of the       *)
(* source, in order.  A "skip" entry is an `o += n` over padding.          *)

Field(name, kind) == [name |-> name, kind |-> kind, width |-> 0]

Skip(n) == [name |-> "", kind |-> "skip", width |-> n]

Layout ==
    << Field("sovereignId", "u64"),
       Field("creator", "pubkey"),
       Field("tokenMint", "pubkey"),
       Field("sovereignType", "u8"),
       Field("state", "u8"),
       Field("name", "string"),
       Field("tokenName", "string"),
       Field("tokenSymbol", "string"),
       Field("metadataUri", "string"),
       Field("bondTarget", "u64"),
       Field("bondDeadline", "i64"),
       Field("bondDuration", "i64"),
       Field("totalDeposited", "u64"),
       Field("depositorCount", "u32"),
       Field("creatorEscrow", "u64"),
       Field("tokenSupplyDeposited", "u64"),
       Field("tokenTotalSupply", "u64"),
       Field("sellFeeBps", "u16"),
       Field("feeMode", "u8"),
       Field("feeControlRenounced", "bool"),
       Field("creationFeeEscrowed", "u64"),
       Skip(32),
       Field("swapFeeBps", "u16"),
       Skip(32 + 2 + 4 + 4 + 4 + 32 + 32 + 32 + 32 + 32 + 1),
       Field("recoveryTarget", "u64"),
       Field("totalSolFeesDistributed", "u64"),
       Skip(8),
       Field("recoveryComplete", "bool"),
       Field("activeProposalId", "u64"),
       Field("proposalCount", "u64"),
       Field("hasActiveProposal", "bool"),
       Skip(2),
       Field("totalFeesCollected", "u64"),
       Field("totalRecovered", "u64"),
       Skip(8),
       Field("genesisNftMint", "pubkey"),
       Field("unwoundAt", "opti64"),
       Field("lastActivity", "i64"),
       Field("activityCheckInitiated", "bool"),
       Field("activityCheckInitiatedAt", "opti64"),
       Field("activityCheckTimestamp", "i64"),
       Skip(16 + 16 + 8),
       Field("unwindSolBalance", "u64"),
       Field("unwindTokenBalance", "u64"),
       Skip(8 + 8 + 8),
       Field("lastActivityTimestamp", "i64"),
       Field("createdAt", "i64"),
       Field("finalizedAt", "i64"),
       Field("bump", "u8") >>

\* Whether the read of one field at offset o returns instead of throwing
\* (RangeError of the Buffer read; subarray and PublicKey do not throw on
\* a buffer that ends early).
ReadReturns(data, o, kind) ==
    CASE kind \in {"u8", "bool"} -> CanRead(data, o, 1)
      [] kind = "u16" -> CanRead(data, o, 2)
      [] kind = "u32" -> CanRead(data, o, 4)
      [] kind \in {"u64", "i64"} -> CanRead(data, o, 8)
      [] kind = "pubkey" -> TRUE
      [] kind = "string" -> CanRead(data, o, 4)
      [] kind = "opti64" ->
            /\ CanRead(data, o, 1)
            /\ (readU8(data, o) = 0 \/ CanRead(data, o + 1, 8))

\* <<value read, bytes consumed>>
ReadField(data, o, kind) ==
    CASE kind = "u8" -> <<readU8(data, o), 1>>
      [] kind = "bool" -> <<readBool(data, o), 1>>
      [] kind = "u16" -> <<readU16LE(data, o), 2>>
      [] kind = "u32" -> <<readU32LE(data, o), 4>>
      [] kind = "u64" -> <<readU64LE(data, o), 8>>
      [] kind = "i64" -> <<readI64LE(data, o), 8>>
      [] kind = "pubkey" -> <<readPubkey(data, o), 32>>
      [] kind = "string" -> readString(data, o)
      [] kind = "opti64" -> readOptionI64(data, o)

RECURSIVE DecodeFrom(_, _, _, _)
DecodeFrom(data, o, i, acc) ==
    IF i > Len(Layout) THEN [ok |-> TRUE, rec |-> acc]
    ELSE LET f == Layout[i] IN
         IF f.kind = "skip" THEN DecodeFrom(data, o + f.width, i + 1, acc)
         ELSE IF ~ReadReturns(data, o, f.kind) THEN [ok |-> FALSE]
         ELSE LET r == ReadField(data, o, f.kind)
              IN  DecodeFrom(data, o + r[2], i + 1, acc @@ (f.name :> r[1]))

\* Variant: the buffer is read as if it were zero-filled past its end.
deserializeZeroFilled(data) ==
    DecodeFrom(data \o Zeros(Len(data) + Len(Layout) * 32),
               DISCRIMINATOR_SIZE, 1, <<>>)

\* [ok |-> TRUE, rec |-> ParsedSovereignState], or [ok |-> FALSE] when a
\* read throws.
deserializeSovereignState(data) ==
    DecodeFrom(data, DISCRIMINATOR_SIZE, 1, <<>>)

---------------------------------------------------------------------------
(* Account data on the ledger: records written in the layout the on-chain  *)
(* program uses, from which the inputs of the model are built.             *)

EncodeField(v, kind) ==
    CASE kind = "u8" -> <<v>>
      [] kind = "bool" -> <<IF v THEN 1 ELSE 0>>
      [] kind = "u16" -> LEBytes(v, 2)
      [] kind = "u32" -> LEBytes(v, 4)
      [] kind = "u64" -> LEBytes(v, 8)
      [] kind = "i64" -> LEBytesSigned(v, 8)
      [] kind = "pubkey" -> v
      [] kind = "string" -> LEBytes(Len(v), 4) \o v
      [] kind = "opti64" ->
            IF v.k = "some" THEN <<1>> \o LEBytesSigned(v.v, 8) ELSE <<0>>

RECURSIVE EncodeFrom(_, _)
EncodeFrom(rec, i) ==
    IF i > Len(Layout) THEN <<>>
    ELSE LET f == Layout[i] IN
         (IF f.kind = "skip" THEN Zeros(f.width)
          ELSE EncodeField(rec[f.name], f.kind)) \o EncodeFrom(rec, i + 1)

Encode(rec) == DISCRIMINATOR \o EncodeFrom(rec, 1)

Key(b) == [i \in 1..32 |-> b]

\* "Alpha", "Alpha Token", "ALP", "ipfs://a"
StrAlpha == <<65, 108, 112, 104, 97>>

StrAlphaToken == <<65, 108, 112, 104, 97, 32, 84, 111, 107, 101, 110>>

StrALP == <<65, 76, 80>>

StrUri == <<105, 112, 102, 115, 58, 47, 47, 97>>

BaseRecord ==
    [ sovereignId |-> 7, creator |-> Key(11), tokenMint |-> Key(12),
      sovereignType |-> 0, state |-> 0,
      name |-> StrAlpha, tokenName |-> StrAlphaToken,
      tokenSymbol |-> StrALP, metadataUri |-> StrUri,
      bondTarget |-> 5000, bondDeadline |-> 300, bondDuration |-> 864000,
      totalDeposited |-> 1200, depositorCount |-> 3, creatorEscrow |-> 10,
      tokenSupplyDeposited |-> 1000, tokenTotalSupply |-> 2000,
      sellFeeBps |-> 300, feeMode |-> 1, feeControlRenounced |-> FALSE,
      creationFeeEscrowed |-> 25, swapFeeBps |-> 30,
      recoveryTarget |-> 1200, totalSolFeesDistributed |-> 40,
      recoveryComplete |-> FALSE, activeProposalId |-> 0,
      proposalCount |-> 0, hasActiveProposal |-> FALSE,
      totalFeesCollected |-> 50, totalRecovered |-> 60,
      genesisNftMint |-> Key(13), unwoundAt |-> Null, lastActivity |-> 100,
      activityCheckInitiated |-> FALSE, activityCheckInitiatedAt |-> Null,
      activityCheckTimestamp |-> 0, unwindSolBalance |-> 0,
      unwindTokenBalance |-> 0, lastActivityTimestamp |-> 100,
      createdAt |-> 90, finalizedAt |-> 0, bump |-> 254 ]

---------------------------------------------------------------------------
(* Labels, dates and the update document of upsertSovereign *)

\* Number(ts) > 0 ? new Date(n * 1000) : undefined
tsToDate(ts) == IF ts > 0 THEN Some(ts * 1000) ELSE Undefined

\* Variant: an index past the table is clamped to its last entry.
statusLabelClamped(idx) ==
    STATUS_LABELS[Min(idx + 1, Len(STATUS_LABELS))]

\* STATUS_LABELS[idx] ?? 'Unknown'
statusLabel(idx) ==
    IF idx + 1 \in DOMAIN STATUS_LABELS THEN STATUS_LABELS[idx + 1]
    ELSE "Unknown"

\* TYPE_LABELS[idx] ?? 'TokenLaunch'
typeLabel(idx) ==
    IF idx + 1 \in DOMAIN TYPE_LABELS THEN TYPE_LABELS[idx + 1]
    ELSE "TokenLaunch"

\* Math.round(num / den) for den > 0: halves round towards +Infinity.
MathRound(num, den) == (2 * num + den) \div (2 * den)

\* s || undefined, for a string s
OrUndefined(s) == IF s = <<>> THEN Undefined ELSE Some(s)

\* "Sovereign #"
StrSovereignHash == <<83, 111, 118, 101, 114, 101, 105, 103, 110, 32, 35>>

bondDurationDays(parsed) ==
    Max(1, MathRound(parsed.bondDuration, SECONDS_PER_DAY))

\* The fields of the $set whose value can be undefined.
OptionalFields ==
    { "tokenSymbol", "tokenName", "metadataUri", "activityCheckTimestamp",
      "finalizedAt", "unwoundAt" }

\* The $set document upsertSovereign builds; clock is the value of
\* new Date() at the call.
SetDocument(parsed, clock) ==
    [ sovereignId |-> parsed.sovereignId,
      name |-> IF parsed.name # <<>> THEN parsed.name
               ELSE StrSovereignHash \o toString(parsed.sovereignId),
      creator |-> toBase58(parsed.creator),
      tokenMint |-> toBase58(parsed.tokenMint),
      sovereignType |-> typeLabel(parsed.sovereignType),
      tokenSymbol |-> OrUndefined(parsed.tokenSymbol),
      tokenName |-> OrUndefined(parsed.tokenName),
      tokenDecimals |-> TOKEN_DECIMALS,
      tokenSupplyDeposited |-> toString(parsed.tokenSupplyDeposited),
      tokenTotalSupply |-> toString(parsed.tokenTotalSupply),
      bondTarget |-> toString(parsed.bondTarget),
      bondDeadline |-> IF tsToDate(parsed.bondDeadline) # Undefined
                       THEN tsToDate(parsed.bondDeadline).v ELSE clock,
      bondDurationDays |-> bondDurationDays(parsed),
      status |-> statusLabel(parsed.state),
      totalDeposited |-> toString(parsed.totalDeposited),
      depositorCount |-> parsed.depositorCount,
      sellFeeBps |-> parsed.sellFeeBps,
      swapFeeBps |-> parsed.swapFeeBps,
      creationFeeEscrowed |-> toString(parsed.creationFeeEscrowed),
      creatorEscrow |-> toString(parsed.creatorEscrow),
      feeControlRenounced |-> parsed.feeControlRenounced,
      metadataUri |-> OrUndefined(parsed.metadataUri),
      totalGorFeesCollected |-> toString(parsed.totalFeesCollected),
      totalGorFeesDistributed |-> toString(parsed.totalSolFeesDistributed),
      recoveryTarget |-> toString(parsed.recoveryTarget),
      totalRecovered |-> toString(parsed.totalRecovered),
      recoveryComplete |-> parsed.recoveryComplete,
      unwindGorBalance |-> toString(parsed.unwindSolBalance),
      unwindTokenBalance |-> toString(parsed.unwindTokenBalance),
      activityCheckInitiated |-> parsed.activityCheckInitiated,
      activityCheckTimestamp |-> tsToDate(parsed.activityCheckTimestamp),
      finalizedAt |-> tsToDate(parsed.finalizedAt),
      unwoundAt |-> IF parsed.unwoundAt # Null
                    THEN tsToDate(parsed.unwoundAt.v) ELSE Undefined ]

\* Variant: the option `upsert: true` left out.
upsertSovereignUpdateOnly(pda, parsed, clock) ==
    [ filter |-> [publicKey |-> toBase58(pda)],
      set |-> SetDocument(parsed, clock),
      upsert |-> FALSE,
      clock |-> clock ]

\* The call Sovereign.findOneAndUpdate(filter, {$set}, {upsert, new}) that
\* upsertSovereign issues.
upsertSovereign(pda, parsed, clock) ==
    [ filter |-> [publicKey |-> toBase58(pda)],
      set |-> SetDocument(parsed, clock),
      upsert |-> TRUE,
      clock |-> clock ]

---------------------------------------------------------------------------
(* The Sovereign collection: a set of documents.  The schema declares      *)
(* unique indexes on publicKey and sovereignId and `timestamps: true`.     *)

UniqueFields == {"publicKey", "sovereignId"}

\* The values the Sovereign schema declares for `status` (its enum).
SovereignStatusEnum == {"Bonding", "Recovery", "Active", "Failed", "Unwound"}

\* Mongoose's cast of a $set: a key whose value is undefined is dropped
\* (the update leaves the stored field alone) or is written as null,
\* depending on the Mongoose version the build resolves.
CastSet(set, omit) ==
    LET keep == { f \in DOMAIN set :
                    ~(omit /\ f \in OptionalFields /\ set[f] = Undefined) }
    IN  [ f \in keep |->
            IF f \in OptionalFields /\ set[f] = Undefined THEN Null
            ELSE set[f] ]

\* $set applied to a document: named fields replaced, the others kept.
ApplySet(doc, set) ==
    [ f \in DOMAIN doc \cup DOMAIN set |->
        IF f \in DOMAIN set THEN set[f] ELSE doc[f] ]

Matches(doc, filter) ==
    \A f \in DOMAIN filter : f \in DOMAIN doc /\ doc[f] = filter[f]

\* E11000: the new document repeats a unique key of another document.
DuplicateKey(coll, old, new) ==
    \E d \in coll \ old : \E f \in UniqueFields :
        f \in DOMAIN d /\ f \in DOMAIN new /\ d[f] = new[f]

\* Variant: the write replaces the collection by the document written.
findOneAndUpdateAlone(coll, q, omit) ==
    IF ~q.upsert THEN [ok |-> TRUE, coll |-> coll]
    ELSE [ok |-> TRUE,
          coll |-> { ApplySet(q.filter,
                              CastSet(q.set, omit)
                                @@ [createdAt |-> q.clock,
                                    updatedAt |-> q.clock]) }]

\* Model.findOneAndUpdate: [ok, coll] where ok = FALSE is a rejected
\* promise that leaves the collection as it was.
findOneAndUpdate(coll, q, omit) ==
    LET found == { d \in coll : Matches(d, q.filter) }
        set   == CastSet(q.set, omit)
    IN  IF found # {}
        THEN LET d   == CHOOSE x \in found : TRUE
                 new == ApplySet(d, set @@ [updatedAt |-> q.clock])
             IN  IF DuplicateKey(coll, {d}, new)
                 THEN [ok |-> FALSE, coll |-> coll]
                 ELSE [ok |-> TRUE, coll |-> (coll \ {d}) \cup {new}]
        ELSE IF ~q.upsert THEN [ok |-> TRUE, coll |-> coll]
        ELSE LET new == ApplySet(q.filter,
                          set @@ [createdAt |-> q.clock,
                                  updatedAt |-> q.clock])
             IN  IF DuplicateKey(coll, {}, new)
                 THEN [ok |-> FALSE, coll |-> coll]
                 ELSE [ok |-> TRUE, coll |-> coll \cup {new}]

\* The stored row of an address (the set of rows has at most one member
\* while the unique index holds).
RowsOf(coll, pda) ==
    { d \in coll : "publicKey" \in DOMAIN d /\ d.publicKey = toBase58(pda) }

---------------------------------------------------------------------------
(* Bounds of the model *)

\* Addresses of SovereignState accounts on the ledger: 1..NumPdas.
NumPdas == 2

\* syncOnce invocations per behaviour.
MaxCycles == 2

\* startChainSync / stopChainSync calls per behaviour.
MaxCalls == 2

\* Changes of a ledger account per behaviour.
MaxLedgerChanges == 1

\* The clock stops advancing after this many interval periods.
MaxPeriods == 1

\* Writes to the store per behaviour of SpecUpsert.
MaxWrites == 3

---------------------------------------------------------------------------
(* The ledger: what getProgramAccounts can return *)

Pdas == 1..NumPdas

Pubkey(p) == Key(100 + p)

\* What an account can hold: 1 = a sovereign in Bonding, 2 = the same
\* sovereign once Active, 3 = the Bonding data cut short.  0 = no account.
Variants == 1..3

\* Further account contents, one family for each field whose treatment is
\* examined over its range, held at the first address.  An account of a
\* family is the base record (id 6 + p, so 7) with one thing changed:
\*   StateInput(s)       its status byte is s,
\*   TypeInput(t)        its type byte is t,
\*   DurationInput(n, o) its bondDuration is n days + DurationOffsets[o] s,
\*   PrefixInput(k)      its first 8 bytes are BadPrefixes[k]: what an
\*                       endpoint that does not apply the memcmp filter of
\*                       the request can return.
\*   TruncInput(n)      the first n bytes of the data of RecordInput(1),
\*   RecordInput(k)      it is WrittenRecord(k): strings, signed values
\*                       and the two optional timestamps varied.
\* The largest value readUInt8 returns.
MaxByte == 255

MaxDays == 10

DurationOffsets == <<0, 1, 43199, 43200, 43201, 86399, -1>>

BadPrefixes ==
    << <<43, 162, 40, 206, 227, 8, 23, 212>>,
       <<42, 162, 40, 206, 227, 8, 23, 213>>,
       <<0, 0, 0, 0, 0, 0, 0, 0>> >>

StateInput(s) == 1000 + s

TypeInput(t) == 2000 + t

DurationInput(n, o) == 3000 + 10 * n + o

PrefixInput(k) == 4000 + k

TruncInput(n) == 5000 + n

RecordInput(k) == 6000 + k

\* Records as the on-chain program holds them.  1: every optional
\* timestamp present, negative signed values; 2: unwoundAt alone present;
\* 3: an Active sovereign whose activity check is under way
\* (activityCheckInitiatedAt alone present); 4: neither, empty strings;
\* 5: the sovereign of 3 with no activity check under way.
ValidRecords ==
    << [BaseRecord EXCEPT !.state = 6, !.bondDeadline = -300,
                          !.unwoundAt = Some(250), !.lastActivity = -1,
                          !.activityCheckInitiated = TRUE,
                          !.activityCheckInitiatedAt = Some(-5),
                          !.activityCheckTimestamp = 260,
                          !.unwindSolBalance = 70, !.unwindTokenBalance = 80,
                          !.finalizedAt = 200],
       [BaseRecord EXCEPT !.state = 6, !.unwoundAt = Some(250),
                          !.unwindSolBalance = 70, !.finalizedAt = 200],
       [BaseRecord EXCEPT !.state = 4, !.activityCheckInitiated = TRUE,
                          !.activityCheckInitiatedAt = Some(240),
                          !.activityCheckTimestamp = 260,
                          !.finalizedAt = 200],
       [BaseRecord EXCEPT !.tokenName = <<>>, !.tokenSymbol = <<>>,
                          !.metadataUri = <<>>, !.feeControlRenounced = TRUE,
                          !.depositorCount = 0],
       [BaseRecord EXCEPT !.state = 4, !.finalizedAt = 200] >>

\* The record as written into the account: the program stores the name
\* and the symbol of records 1 and 2 NUL-padded.
WrittenRecord(k) ==
    IF k <= 2
    THEN [ValidRecords[k] EXCEPT !.name = @ \o <<0, 0, 0>>,
                                 !.tokenSymbol = @ \o <<0>>]
    ELSE ValidRecords[k]

FullAccountData == Encode([WrittenRecord(1) EXCEPT !.sovereignId = 7])

TruncInputs == { TruncInput(n) : n \in 0..(Len(FullAccountData) - 1) }

RecordInputs == { RecordInput(k) : k \in DOMAIN ValidRecords }

StateInputs == { StateInput(s) : s \in 0..MaxByte }

TypeInputs == { TypeInput(t) : t \in 0..MaxByte }

DurationInputs ==
    { DurationInput(n, o) : n \in 0..MaxDays, o \in DOMAIN DurationOffsets }

PrefixInputs == { PrefixInput(k) : k \in DOMAIN BadPrefixes }

FieldInputs ==
    StateInputs \cup TypeInputs \cup DurationInputs \cup PrefixInputs
        \cup TruncInputs \cup RecordInputs

\* The bondDuration of DurationInput(n, o), in seconds.
DurationOf(v) ==
    ((v - 3000) \div 10) * SECONDS_PER_DAY + DurationOffsets[(v - 3000) % 10]

RecordOf(p, v) ==
    IF v = 2
    THEN [BaseRecord EXCEPT !.sovereignId = p, !.state = 4,
                            !.totalDeposited = 5000, !.finalizedAt = 200]
    ELSE IF v \in StateInputs
    THEN [BaseRecord EXCEPT !.sovereignId = 6 + p, !.state = v - 1000]
    ELSE IF v \in TypeInputs
    THEN [BaseRecord EXCEPT !.sovereignId = 6 + p,
                            !.sovereignType = v - 2000]
    ELSE IF v \in DurationInputs
    THEN [BaseRecord EXCEPT !.sovereignId = 6 + p,
                            !.bondDuration = DurationOf(v)]
    ELSE IF v \in PrefixInputs
    THEN [BaseRecord EXCEPT !.sovereignId = 6 + p]
    ELSE IF v \in RecordInputs
    THEN [WrittenRecord(v - 6000) EXCEPT !.sovereignId = 6 + p]
    ELSE [BaseRecord EXCEPT !.sovereignId = p]

TruncatedLen == 300

AccountData(p, v) ==
    IF v = 3 THEN SubSeq(Encode(RecordOf(p, 1)), 1, TruncatedLen)
    ELSE IF v \in PrefixInputs
    THEN BadPrefixes[v - 4000] \o EncodeFrom(RecordOf(p, v), 1)
    ELSE IF v \in TruncInputs
    THEN SubSeq(FullAccountData, 1, v - 5000)
    ELSE Encode(RecordOf(p, v))

\* deserializeSovereignState(Buffer.from(account.data)) of every account.
ParsedTable ==
    [ p \in Pdas |->
        [ v \in Variants \cup (IF p = 1 THEN FieldInputs ELSE {}) |->
            deserializeSovereignState(AccountData(p, v)) ] ]

Parsed(acc) == ParsedTable[acc.pubkey][acc.data]

\* The accounts a fetch returns: those the ledger holds, {pubkey, account}.
RECURSIVE SnapshotFrom(_, _)
SnapshotFrom(led, p) ==
    IF p > NumPdas THEN <<>>
    ELSE (IF led[p] = 0 THEN <<>> ELSE <<[pubkey |-> p, data |-> led[p]]>>)
         \o SnapshotFrom(led, p + 1)

Snapshot(led) == SnapshotFrom(led, 1)

---------------------------------------------------------------------------
(* Errors of connection.getProgramAccounts *)

Str503 == <<53, 48, 51>>

Str502 == <<53, 48, 50>>

Str429 == <<52, 50, 57>>

StrTimeout == <<116, 105, 109, 101, 111, 117, 116>>

StrECONNRESET == <<69, 67, 79, 78, 78, 82, 69, 83, 69, 84>>

\* "HTTP 503", "timeout", "fetch failed"
FetchErrors ==
    << <<72, 84, 84, 80, 32>> \o Str503,
       StrTimeout,
       <<102, 101, 116, 99, 104, 32, 102, 97, 105, 108, 101, 100>> >>

\* Variant: every error is retried.
isRetryableAlways(msg) == TRUE

isRetryable(msg) ==
    \/ Includes(msg, Str503)
    \/ Includes(msg, Str502)
    \/ Includes(msg, Str429)
    \/ Includes(msg, StrTimeout)
    \/ Includes(msg, StrECONNRESET)

\* Variant: the exponent is off by one.
RetryDelayDoubled(attempt) == BASE_DELAY_MS * Pow2(attempt)

\* BASE_DELAY_MS * Math.pow(2, attempt - 1)
RetryDelay(attempt) == BASE_DELAY_MS * Pow2(attempt - 1)

---------------------------------------------------------------------------
(* State *)

VARIABLES
    now,            \* the clock (Date.now()), in ms
    timers,         \* pending setTimeout / setInterval timers
    pollTimer,      \* the module variable pollTimer (an interval's id); 0 is null
    calls,          \* startChainSync / stopChainSync calls made so far
    lastCall,       \* what the module went through last: "none" (not yet
                    \* imported), "threw" or "loaded" (its import), "start"
                    \* or "stop" (the latest of those calls)
    cycles,         \* every syncOnce invocation, in order of start
    store,          \* the Sovereign collection
    ledger,         \* ledger[p]: what account p holds (0: no account)
    changes,        \* ledger changes so far
    programId,      \* config.programId
    omitUndefined,  \* whether the build's Mongoose drops undefined keys
    lastUp,         \* SpecUpsert: the latest write to the store, if it was
                    \* an upsert: <<pda, input, parity of such upserts>>
    writes,         \* SpecUpsert: writes to the store so far
    atStop,         \* the cycles in flight at the latest stopChainSync call,
                    \* each with the await it was at and the number of
                    \* accounts it had processed
    derived,        \* the getSovereignPDA calls made so far, in order
    rpc,            \* the requests POST /api/rpc has received, in order
    backupRpcUrl,   \* config.backupRpcUrl
    pages,          \* the SovereignPage collection
    lastPut         \* the latest PUT /api/sovereign-pages/:sovereignId
                    \* request and the status of its response

vars ==
    << now, timers, pollTimer, calls, lastCall, cycles, store,
       ledger, changes, programId, omitUndefined, lastUp, writes,
       atStop, derived, rpc, backupRpcUrl, pages, lastPut >>

\* The state of the HTTP routes.
routeVars == << rpc, backupRpcUrl, pages, lastPut >>

MaxTime == WARMUP_MS + MaxPeriods * DEFAULT_INTERVAL_MS

NoUpsert == <<0, 0, 0>>

NoPut == [status |-> 0]

\* A pending timer.  Its handle is <<kind, id>>: a warm-up timeout carries
\* the number of the startChainSync call that set it, the interval timer
\* that of the warm-up callback that set it, a sleep that of its cycle.
Timer(id, kind, due, period) ==
    [id |-> id, kind |-> kind, due |-> due, period |-> period]

InitCommon ==
    /\ now = 0
    /\ timers = {}
    /\ pollTimer = 0
    /\ calls = 0
    /\ lastCall = "none"
    /\ cycles = <<>>
    /\ store = {}
    /\ changes = 0
    /\ lastUp = NoUpsert
    /\ writes = 0
    /\ atStop = <<>>
    /\ derived = <<>>
    /\ rpc = <<>>
    /\ backupRpcUrl = ""
    /\ pages = {}
    /\ lastPut = NoPut

\* What the ledger holds when the service starts: a sovereign, alone or
\* next to an account whose data is cut short, in either order.
InitialLedgers ==
    { [p \in Pdas |-> IF p = 1 THEN 1 ELSE 0],
      [p \in Pdas |-> IF p = 1 THEN 3 ELSE 1],
      [p \in Pdas |-> IF p = 2 THEN 3 ELSE 1] }

Init ==
    /\ InitCommon
    /\ omitUndefined = TRUE
    /\ ledger \in InitialLedgers
    /\ programId \in {"", "SovProgram"}

---------------------------------------------------------------------------
(* syncOnce and fetchWithRetry.  A cycle is one invocation of syncOnce;    *)
(* pc is the await it is suspended at:                                     *)
(*   "fetch"  - connection.getProgramAccounts of attempt `attempt`         *)
(*   "sleep"  - sleep(delay) between two attempts                          *)
(*   "upsert" - upsertSovereign of accounts[i], called at callAt           *)
(*   "done"   - returned `result` (err # 0: through its outer catch)       *)
(* fails, lastErr, failedAt, triedAt and outcomes record what happened to  *)
(* it: the number of attempts that failed, the latest fetch error and its  *)
(* time, the time the current attempt was issued, and for each account     *)
(* processed "decode" (its decode threw), "store" (its upsert was          *)
(* rejected) or "ok" (the store applied its upsert).                       *)

\* syncOnce up to its first await: fetchWithRetry issues attempt 1.
\* startedAt is the time of the invocation, slept the time the cycle has
\* spent in sleep(delay) so far, fetchedAt the time its fetch resolved.
syncOnce(clock) ==
    [ pc |-> "fetch", attempt |-> 1, accounts |-> <<>>, i |-> 0,
      upserted |-> 0, callAt |-> 0, result |-> -1, err |-> 0,
      fails |-> 0, lastErr |-> 0, failedAt |-> 0, triedAt |-> clock,
      outcomes |-> <<>>, startedAt |-> clock, slept |-> 0,
      fetchedAt |-> 0 ]

\* What happened to the account being processed.
Observe(cyc, what) == [cyc EXCEPT !.outcomes = Append(@, what)]

\* Variant: `upserted++` placed before the awaited upsert, so that an
\* account whose processing fails is counted as well.
CatchAccountCounted(cyc) == [cyc EXCEPT !.upserted = @ + 1]

\* The inner catch of syncOnce: log, go on with the next account.
CatchAccount(cyc) == cyc

\* `return upserted`
ReturnUpserted(cyc) == [cyc EXCEPT !.pc = "done", !.result = cyc.upserted]

\* Variant: no outer catch, the promise of syncOnce rejects.
CatchCycleRethrow(cyc, e) == [cyc EXCEPT !.pc = "rejected", !.err = e]

\* The outer catch of syncOnce: log, `return 0`.
CatchCycle(cyc, e) == [cyc EXCEPT !.pc = "done", !.result = 0, !.err = e]

\* Variant: the loop stops at the first account whose decode throws.
RunLoopStopAtError(cyc, i, clock) ==
    IF i > Len(cyc.accounts) THEN ReturnUpserted([cyc EXCEPT !.i = i])
    ELSE IF ~Parsed(cyc.accounts[i]).ok
         THEN ReturnUpserted(Observe([cyc EXCEPT !.i = i], "decode"))
         ELSE [cyc EXCEPT !.pc = "upsert", !.i = i, !.callAt = clock]

\* The for loop of syncOnce from accounts[i] on, up to its next await: an
\* account whose decode throws is logged and skipped, the first one that
\* decodes is passed to upsertSovereign, and past the last one the cycle
\* returns.
RECURSIVE RunLoop(_, _, _)
RunLoop(cyc, i, clock) ==
    IF i > Len(cyc.accounts) THEN ReturnUpserted([cyc EXCEPT !.i = i])
    ELSE IF ~Parsed(cyc.accounts[i]).ok
         THEN RunLoop(CatchAccount(Observe(cyc, "decode")), i + 1, clock)
         ELSE [cyc EXCEPT !.pc = "upsert", !.i = i, !.callAt = clock]

\* `upserted++` after the awaited upsert resolved.
CountUpsert(cyc) == [cyc EXCEPT !.upserted = @ + 1]

\* Variant: a constant delay between the attempts, no backoff.
CatchFetchFlat(cyc, e, clock) ==
    LET failed == [cyc EXCEPT !.fails = @ + 1, !.lastErr = e,
                              !.failedAt = clock]
    IN  IF isRetryable(FetchErrors[e]) /\ cyc.attempt < MAX_RETRIES
        THEN [cyc |-> [failed EXCEPT !.pc = "sleep"],
              sleep |-> BASE_DELAY_MS]
        ELSE [cyc |-> CatchCycle(failed, e), sleep |-> 0]

\* The catch of fetchWithRetry for error e of the current attempt:
\* [cyc, sleep] where sleep is 0 or the delay to sleep before the next
\* attempt.
CatchFetch(cyc, e, clock) ==
    LET failed == [cyc EXCEPT !.fails = @ + 1, !.lastErr = e,
                              !.failedAt = clock]
    IN  IF isRetryable(FetchErrors[e]) /\ cyc.attempt < MAX_RETRIES
        THEN [cyc |-> [failed EXCEPT !.pc = "sleep"],
              sleep |-> RetryDelay(cyc.attempt)]
        ELSE [cyc |-> CatchCycle(failed, e), sleep |-> 0]

InFlight == { c \in DOMAIN cycles : cycles[c].pc # "done" }

\* getProgramAccounts resolves with the accounts the ledger holds.
FetchResolve(c) ==
    /\ c \in DOMAIN cycles
    /\ cycles[c].pc = "fetch"
    /\ cycles' = [cycles EXCEPT ![c] =
                    RunLoop([@ EXCEPT !.accounts = Snapshot(ledger),
                                      !.fetchedAt = now], 1, now)]
    /\ UNCHANGED << now, timers, pollTimer, calls, lastCall,
                    store, ledger, changes, programId, omitUndefined, atStop, derived, routeVars, lastUp, writes >>

\* getProgramAccounts rejects with FetchErrors[e].
FetchReject(c, e) ==
    /\ c \in DOMAIN cycles
    /\ cycles[c].pc = "fetch"
    /\ LET r == CatchFetch(cycles[c], e, now)
       IN  /\ cycles' = [cycles EXCEPT ![c] = r.cyc]
           /\ timers' = IF r.sleep > 0
                         THEN timers \cup
                                {Timer(c, "sleep", now + r.sleep, 0)}
                         ELSE timers
    /\ UNCHANGED << now, pollTimer, calls, lastCall, store, ledger, changes,
                    programId, omitUndefined, atStop, derived, routeVars, lastUp, writes >>

\* The sleep of fetchWithRetry ends: the loop issues the next attempt.
SleepFire(t) ==
    /\ t \in timers
    /\ t.kind = "sleep"
    /\ t.due <= now
    /\ timers' = timers \ {t}
    /\ cycles' = [cycles EXCEPT ![t.id] =
                    [@ EXCEPT !.pc = "fetch", !.attempt = @ + 1,
                              !.triedAt = now,
                              !.slept = @ + (now - cycles[t.id].failedAt)]]
    /\ UNCHANGED << now, pollTimer, calls, lastCall, store,
                    ledger, changes, programId, omitUndefined, atStop, derived, routeVars, lastUp, writes >>

\* The awaited findOneAndUpdate settles: the store applies the update or
\* rejects it (duplicate key).
UpsertSettle(c) ==
    /\ c \in DOMAIN cycles
    /\ cycles[c].pc = "upsert"
    /\ LET cyc == cycles[c]
           acc == cyc.accounts[cyc.i]
       IN  \E q \in {upsertSovereign(Pubkey(acc.pubkey), Parsed(acc).rec,
                                     cyc.callAt)} :
           \E r \in {findOneAndUpdate(store, q, omitUndefined)} :
           /\ store' = r.coll
           /\ cycles' = [cycles EXCEPT ![c] =
                 RunLoop(IF r.ok THEN CountUpsert(Observe(cyc, "ok"))
                         ELSE CatchAccount(Observe(cyc, "store")),
                         cyc.i + 1, now)]
    /\ UNCHANGED << now, timers, pollTimer, calls, lastCall,
                    ledger, changes, programId, omitUndefined, atStop, derived, routeVars, lastUp, writes >>

\* The awaited findOneAndUpdate rejects without having written (the
\* database is unreachable).
UpsertReject(c) ==
    /\ c \in DOMAIN cycles
    /\ cycles[c].pc = "upsert"
    /\ cycles' = [cycles EXCEPT ![c] =
                    RunLoop(CatchAccount(Observe(@, "store")), @.i + 1, now)]
    /\ UNCHANGED << now, timers, pollTimer, calls, lastCall,
                    store, ledger, changes, programId, omitUndefined, atStop, derived, routeVars, lastUp, writes >>

---------------------------------------------------------------------------
(* The polling loop *)

\* The module is imported: `const PROGRAM_ID = new
\* PublicKey(config.programId)` at its top level throws on an empty string
\* ("Invalid public key input"), and the import fails.
ImportModule ==
    /\ lastCall = "none"
    /\ lastCall' = IF programId = "" THEN "threw" ELSE "loaded"
    /\ UNCHANGED << now, timers, pollTimer, calls, cycles, store, ledger,
                    changes, programId, omitUndefined, atStop, derived, routeVars, lastUp, writes >>

\* Nothing of the module can be called unless its import succeeded.
ModuleLoaded == lastCall \notin {"none", "threw"}

\* Variant: the first cycle is scheduled without the warm-up delay.
startChainSyncAtOnce(intervalMs) ==
    /\ ModuleLoaded
    /\ calls < MaxCalls
    /\ calls' = calls + 1
    /\ lastCall' = "start"
    /\ timers' =
          IF pollTimer # 0 THEN timers
          ELSE IF programId = "" THEN timers
          ELSE timers \cup {Timer(calls + 1, "warmup", now, intervalMs)}
    /\ UNCHANGED << now, pollTimer, cycles, store, ledger, changes,
                    programId, omitUndefined, atStop, derived, routeVars, lastUp, writes >>

\* Variant: neither the import nor startChainSync looks at the program id.
startChainSyncUnchecked(intervalMs) ==
    /\ calls < MaxCalls
    /\ calls' = calls + 1
    /\ lastCall' = "start"
    /\ timers' =
          IF pollTimer # 0 THEN timers
          ELSE timers \cup
                 {Timer(calls + 1, "warmup", now + WARMUP_MS, intervalMs)}
    /\ UNCHANGED << now, pollTimer, cycles, store, ledger, changes,
                    programId, omitUndefined, atStop, derived, routeVars, lastUp, writes >>

startChainSync(intervalMs) ==
    /\ ModuleLoaded
    /\ calls < MaxCalls
    /\ calls' = calls + 1
    /\ lastCall' = "start"
    /\ timers' =
          IF pollTimer # 0 THEN timers
          ELSE IF programId = "" THEN timers
          ELSE timers \cup
                 {Timer(calls + 1, "warmup", now + WARMUP_MS, intervalMs)}
    /\ UNCHANGED << now, pollTimer, cycles, store, ledger, changes,
                    programId, omitUndefined, atStop, derived, routeVars, lastUp, writes >>

\* Variant: stop clears every pending timer, the sleep of a cycle that is
\* between two fetch attempts included.
stopChainSyncClearsAll ==
    /\ ModuleLoaded
    /\ calls < MaxCalls
    /\ calls' = calls + 1
    /\ lastCall' = "stop"
    /\ timers' = {}
    /\ pollTimer' = 0
    /\ atStop' = [c \in InFlight |->
                     [pc |-> cycles[c].pc,
                      processed |-> Len(cycles[c].outcomes)]]
    /\ UNCHANGED << now, cycles, store, ledger, changes,
                    programId, omitUndefined, derived, routeVars, lastUp, writes >>

stopChainSync ==
    /\ ModuleLoaded
    /\ calls < MaxCalls
    /\ calls' = calls + 1
    /\ lastCall' = "stop"
    /\ IF pollTimer # 0
       THEN /\ timers' = { t \in timers :
                             ~(t.kind = "interval" /\ t.id = pollTimer) }
            /\ pollTimer' = 0
       ELSE UNCHANGED <<timers, pollTimer>>
    /\ atStop' = [c \in InFlight |->
                     [pc |-> cycles[c].pc,
                      processed |-> Len(cycles[c].outcomes)]]
    /\ UNCHANGED << now, cycles, store, ledger, changes,
                    programId, omitUndefined, derived, routeVars, lastUp, writes >>

\* The setTimeout callback of startChainSync: syncOnce(connection), then
\* pollTimer = setInterval(...).
WarmupFire(t) ==
    /\ t \in timers
    /\ t.kind = "warmup"
    /\ t.due <= now
    /\ Len(cycles) < MaxCycles
    /\ cycles' = Append(cycles, syncOnce(now))
    /\ timers' = (timers \ {t}) \cup
                    {Timer(t.id, "interval", now + t.period, t.period)}
    /\ pollTimer' = t.id
    /\ UNCHANGED << now, calls, lastCall, store, ledger, changes, programId,
                    omitUndefined, atStop, derived, routeVars, lastUp, writes >>

\* The setInterval callback: syncOnce(connection); the timer is re-armed.
IntervalFire(t) ==
    /\ t \in timers
    /\ t.kind = "interval"
    /\ t.due <= now
    /\ Len(cycles) < MaxCycles
    /\ cycles' = Append(cycles, syncOnce(now))
    /\ timers' = (timers \ {t}) \cup {[t EXCEPT !.due = @ + t.period]}
    /\ UNCHANGED << now, pollTimer, calls, lastCall, store,
                    ledger, changes, programId, omitUndefined, atStop, derived, routeVars, lastUp, writes >>

\* Time passes up to the next timer that is due.
AdvanceClock ==
    /\ timers # {}
    /\ \A t \in timers : t.due > now
    /\ LET next == CHOOSE d \in { t.due : t \in timers } :
                      \A t \in timers : d <= t.due
       IN  /\ next <= MaxTime
           /\ now' = next
    /\ UNCHANGED << timers, pollTimer, calls, lastCall, cycles,
                    store, ledger, changes, programId, omitUndefined, atStop, derived, routeVars, lastUp, writes >>

\* The on-chain program rewrites, creates or closes an account.
LedgerChange(p, v) ==
    /\ changes < MaxLedgerChanges
    /\ ledger[p] # v
    /\ ledger' = [ledger EXCEPT ![p] = v]
    /\ changes' = changes + 1
    /\ UNCHANGED << now, timers, pollTimer, calls, lastCall,
                    cycles, store, programId, omitUndefined, atStop, derived, routeVars, lastUp, writes >>

Next ==
    \/ ImportModule
    \/ startChainSync(DEFAULT_INTERVAL_MS)
    \/ stopChainSync
    \/ \E t \in timers : WarmupFire(t)
    \/ \E t \in timers : IntervalFire(t)
    \/ \E t \in timers : SleepFire(t)
    \/ \E c \in DOMAIN cycles : FetchResolve(c)
    \/ \E c \in DOMAIN cycles : \E e \in DOMAIN FetchErrors : FetchReject(c, e)
    \/ \E c \in DOMAIN cycles : UpsertSettle(c)
    \/ \E c \in DOMAIN cycles : UpsertReject(c)
    \/ AdvanceClock

Spec == Init /\ [][Next]_vars

\* The server as deployed: main() calls startChainSync(60_000) once when it
\* boots, and nothing calls stopChainSync.
ServerStart ==
    /\ calls = 0
    /\ startChainSync(DEFAULT_INTERVAL_MS)

NextServer ==
    \/ ImportModule
    \/ ServerStart
    \/ \E t \in timers : WarmupFire(t)
    \/ \E t \in timers : IntervalFire(t)
    \/ \E t \in timers : SleepFire(t)
    \/ \E c \in DOMAIN cycles : FetchResolve(c)
    \/ \E c \in DOMAIN cycles : \E e \in DOMAIN FetchErrors : FetchReject(c, e)
    \/ \E c \in DOMAIN cycles : UpsertSettle(c)
    \/ \E c \in DOMAIN cycles : UpsertReject(c)
    \/ AdvanceClock
    \/ \E p \in Pdas : \E v \in {0} \cup Variants : LedgerChange(p, v)

SpecServer == Init /\ [][NextServer]_vars

---------------------------------------------------------------------------
(* The store under its writers alone: upsertSovereign applied to decoded   *)
(* records, and handleSovereignStatusChange of the webhook indexer, which  *)
(* writes to the same collection.                                          *)

\* Decoded records that differ in what they carry: 1 = every field set,
\* 2 = no deadline, symbol, metadata URI or activity-check time,
\* 3 = Active with finalizedAt and unwoundAt set.
UpsertInputs == 1..3

InputRecord(p, k) ==
    CASE k = 1 -> [BaseRecord EXCEPT !.sovereignId = p,
                                     !.activityCheckTimestamp = 150]
      [] k = 2 -> [BaseRecord EXCEPT !.sovereignId = p, !.bondDeadline = 0,
                                     !.tokenSymbol = <<>>,
                                     !.metadataUri = <<>>]
      [] k = 3 -> [BaseRecord EXCEPT !.sovereignId = p, !.state = 4,
                                     !.finalizedAt = 200,
                                     !.unwoundAt = Some(250)]

InputTable ==
    [ p \in Pdas |-> [ k \in UpsertInputs |->
        deserializeSovereignState(Encode(InputRecord(p, k))).rec ] ]

\* PublicKey.findProgramAddressSync([Buffer.from('engine_pool'),
\* sovereign], ENGINE_V3_PROGRAM_ID): a function of the sovereign's key.
EnginePoolPDA(sovereign) == <<"engine_pool", sovereign>>

\* The update handleSovereignStatusChange issues.
handleSovereignStatusChange(sovereign, newStatus, blockTime, progId, clock) ==
    LET base == [status |-> newStatus]
        fin  == IF newStatus \in {"Recovery", "Active"}
                THEN [finalizedAt |-> Some(blockTime)] @@
                     (IF progId # ""
                      THEN [enginePool |-> toBase58(EnginePoolPDA(sovereign))]
                      ELSE <<>>)
                ELSE <<>>
        unw  == IF newStatus = "Unwound"
                THEN [unwoundAt |-> Some(blockTime)] ELSE <<>>
    IN  [ filter |-> [publicKey |-> toBase58(sovereign)],
          set |-> base @@ fin @@ unw,
          upsert |-> FALSE,
          clock |-> clock ]

\* await upsertSovereign(pda, parsed), called and settled at `now`.
UpsertApply(p, k) ==
    /\ writes < MaxWrites
    /\ LET q == upsertSovereign(Pubkey(p), InputTable[p][k], now)
           r == findOneAndUpdate(store, q, omitUndefined)
       IN  /\ r.ok
           /\ store' = r.coll
           /\ lastUp' = <<p, k, 1 - lastUp[3]>>
    /\ writes' = writes + 1
    /\ UNCHANGED << now, timers, pollTimer, calls, lastCall, cycles, ledger,
                    changes, programId, omitUndefined, atStop, derived, routeVars >>

\* The webhook reports a status change of sovereign p in a block of `now`.
StatusChange(p, newStatus) ==
    /\ writes < MaxWrites
    /\ LET q == handleSovereignStatusChange(Pubkey(p), newStatus, now,
                                            programId, now)
           r == findOneAndUpdate(store, q, omitUndefined)
       IN  /\ r.ok
           /\ r.coll # store
           /\ store' = r.coll
    /\ lastUp' = NoUpsert
    /\ writes' = writes + 1
    /\ UNCHANGED << now, timers, pollTimer, calls, lastCall, cycles, ledger,
                    changes, programId, omitUndefined, atStop, derived, routeVars >>

\* Time passes: one poll interval.
IntervalPasses ==
    /\ now + DEFAULT_INTERVAL_MS <= MaxTime
    /\ now' = now + DEFAULT_INTERVAL_MS
    /\ UNCHANGED << timers, pollTimer, calls, lastCall, cycles, store,
                    ledger, changes, programId, omitUndefined, atStop, derived, routeVars, lastUp, writes >>

InitUpsert ==
    /\ InitCommon
    /\ omitUndefined \in BOOLEAN
    /\ ledger = [p \in Pdas |-> 0]
    /\ programId = "SovProgram"

NextUpsert ==
    \/ \E p \in Pdas : \E k \in UpsertInputs : UpsertApply(p, k)
    \/ \E p \in Pdas :
         \E st \in {"Recovery", "Active", "Failed", "Unwound"} :
            StatusChange(p, st)
    \/ IntervalPasses

SpecUpsert == InitUpsert /\ [][NextUpsert]_vars

---------------------------------------------------------------------------
(* getSovereignPDA: the address of the SovereignState account of an id,    *)
(* derived by PublicKey.findProgramAddressSync from the seeds "sovereign"  *)
(* and the id as 8 little-endian bytes, under PROGRAM_ID.                  *)

\* "sovereign", "ProgramDerivedAddress"
StrSovereign == <<115, 111, 118, 101, 114, 101, 105, 103, 110>>

StrProgramDerivedAddress ==
    << 80, 114, 111, 103, 114, 97, 109, 68, 101, 114, 105, 118, 101, 100,
       65, 100, 100, 114, 101, 115, 115 >>

\* const PROGRAM_ID = new PublicKey(config.programId)
PROGRAM_ID == [i \in 1..32 |-> IF programId = "" THEN 0 ELSE 77]

RECURSIVE SumBytes(_)
SumBytes(b) == IF b = <<>> THEN 0 ELSE b[1] + SumBytes(Tail(b))

RECURSIVE Concat(_)
Concat(seeds) == IF seeds = <<>> THEN <<>> ELSE seeds[1] \o Concat(Tail(seeds))

\* SHA-256, as an injective function of the bytes hashed.
sha256(bytes) == <<"sha256", bytes>>

\* Whether the hash of these bytes is a point of the ed25519 curve: a
\* fixed property of the bytes, true of about half of them.
isOnCurve(bytes) == SumBytes(bytes) % 2 = 0

\* PublicKey.createProgramAddressSync: Null when it throws (the hash is on
\* the curve).
createProgramAddressSync(seeds, progId) ==
    LET bytes == Concat(seeds) \o progId \o StrProgramDerivedAddress
    IN  IF isOnCurve(bytes) THEN Null ELSE Some(sha256(bytes))

\* The loop of PublicKey.findProgramAddressSync from `nonce` downwards:
\* <<address, nonce>>, or Null when no nonce is left (it throws).
RECURSIVE FindFromNonce(_, _, _)
FindFromNonce(seeds, progId, nonce) ==
    IF nonce <= 0 THEN Null
    ELSE LET a == createProgramAddressSync(Append(seeds, <<nonce>>), progId)
         IN  IF a # Null THEN <<a.v, nonce>>
             ELSE FindFromNonce(seeds, progId, nonce - 1)

findProgramAddressSync(seeds, progId) == FindFromNonce(seeds, progId, MaxByte)

\* Variant: the search for the bump resumes below the number of calls made
\* so far instead of starting from 255 at each call.
getSovereignPDAResuming(sovereignId) ==
    FindFromNonce(<<StrSovereign, LEBytes(sovereignId, 8)>>, PROGRAM_ID,
                  MaxByte - Len(derived))[1]

getSovereignPDA(sovereignId) ==
    findProgramAddressSync(<<StrSovereign, LEBytes(sovereignId, 8)>>,
                           PROGRAM_ID)[1]

\* The ids getSovereignPDA is called with, and the calls per behaviour.
DeriveIds == {7, 8}

MaxDerives == 2

\* A call of getSovereignPDA, between the writes to the store and the
\* intervals that pass.
DerivePda(id) ==
    /\ Len(derived) < MaxDerives
    /\ derived' = Append(derived, [id |-> id, address |-> getSovereignPDA(id),
                                    at |-> <<writes, now>>])
    /\ UNCHANGED << now, timers, pollTimer, calls, lastCall, cycles, store,
                    ledger, changes, programId, omitUndefined, atStop,
                    routeVars, lastUp, writes >>

NextDerive ==
    \/ \E id \in DeriveIds : DerivePda(id)
    \/ \E p \in Pdas : \E k \in UpsertInputs : UpsertApply(p, k)
    \/ IntervalPasses

SpecDerive == InitUpsert /\ [][NextDerive]_vars

---------------------------------------------------------------------------
(* POST /api/rpc: the JSON-RPC proxy.  A request is one invocation of the  *)
(* handler; pc is the await it is suspended at:                            *)
(*   "primary"     - fetch(config.rpcUrl)                                  *)
(*   "backupTry"   - fetch(config.backupRpcUrl) inside the try             *)
(*   "json"        - response.json() inside the try                        *)
(*   "backupCatch" - fetch(config.backupRpcUrl) inside the catch           *)
(*   "jsonCatch"   - backupResponse.json() inside the catch                *)
(*   "done"        - returned                                              *)
(* response is the handler's variable of that name (or backupResponse),    *)
(* with `from` the endpoint it came from.  The other fields record what    *)
(* happened: the fetches issued to each endpoint, whether an attempt on    *)
(* each endpoint failed (rejected, non-OK status or a body that is not     *)
(* JSON), and the responses sent to the client, `own` marking the          *)
(* handler's own error bodies.                                             *)

ALLOWED_RPC_METHODS ==
    { "getAccountInfo", "getMultipleAccounts", "getProgramAccounts",
      "getTokenAccountBalance", "getTokenAccountsByOwner",
      "getTokenAccountsByDelegate", "getTokenSupply", "getTransaction",
      "getSignaturesForAddress", "getSignatureStatuses",
      "getLatestBlockhash", "getBlockHeight", "getSlot", "getEpochInfo",
      "getHealth", "getVersion", "getMinimumBalanceForRentExemption",
      "getFeeForMessage", "sendTransaction", "simulateTransaction",
      "getBalance" }

\* The `method` of a request body: absent, not a string, a method that is
\* not allowed, an allowed one.
RpcMethods ==
    { Undefined, [k |-> "number", v |-> 1], Some("requestAirdrop"),
      Some("getSlot") }

\* What an endpoint answers: a status and a body that is JSON or not.
RpcResponses ==
    { [ok |-> st = 200, status |-> st, json |-> j] :
        st \in {200, 500}, j \in BOOLEAN }

\* Requests per behaviour.
MaxRequests == 2

\* res.status(status).json(...)
Send(req, status, own) ==
    [req EXCEPT !.pc = "done",
                !.sent = Append(@, [status |-> status, own |-> own])]

\* The handler up to its first await.
NewRequest(method) ==
    LET req == [ method |-> method, pc |-> "primary", response |-> Null,
                 primaryCalls |-> 0, backupCalls |-> 0,
                 primaryFailed |-> FALSE, backupFailed |-> FALSE,
                 sent |-> <<>> ]
    IN  IF method.k # "some" THEN Send(req, 400, TRUE)
        ELSE IF method.v \notin ALLOWED_RPC_METHODS THEN Send(req, 403, TRUE)
        ELSE [req EXCEPT !.primaryCalls = 1]

\* The attempt on the endpoint the response in hand came from failed.
MarkFailed(req, from) ==
    IF from = "primary" THEN [req EXCEPT !.primaryFailed = TRUE]
    ELSE [req EXCEPT !.backupFailed = TRUE]

\* The catch of the handler, up to its next await or its return.
CatchProxy(req, backup) ==
    IF backup # ""
    THEN [req EXCEPT !.pc = "backupCatch", !.backupCalls = @ + 1]
    ELSE Send(req, 502, TRUE)

ProxyPost(method) ==
    /\ Len(rpc) < MaxRequests
    /\ rpc' = Append(rpc, NewRequest(method))
    /\ UNCHANGED << now, timers, pollTimer, calls, lastCall, cycles, store,
                    ledger, changes, programId, omitUndefined, atStop, derived,
                    backupRpcUrl, pages, lastPut, lastUp, writes >>

\* The step of request r whose outcome is `next`.
ProxyStep(r, at, next) ==
    /\ r \in DOMAIN rpc
    /\ rpc[r].pc = at
    /\ rpc' = [rpc EXCEPT ![r] = next]
    /\ UNCHANGED << now, timers, pollTimer, calls, lastCall, cycles, store,
                    ledger, changes, programId, omitUndefined, atStop, derived,
                    backupRpcUrl, pages, lastPut, lastUp, writes >>

\* fetch(config.rpcUrl) resolves: a non-OK answer with a backup configured
\* goes to the backup, any other is parsed.
PrimaryResolve(r, resp) ==
    ProxyStep(r, "primary",
        IF ~resp.ok /\ backupRpcUrl # ""
        THEN [rpc[r] EXCEPT !.pc = "backupTry", !.primaryFailed = TRUE,
                            !.backupCalls = @ + 1]
        ELSE [rpc[r] EXCEPT !.pc = "json",
                            !.primaryFailed = ~resp.ok,
                            !.response = resp @@ [from |-> "primary"]])

\* fetch(config.rpcUrl) rejects (network error).
PrimaryReject(r) ==
    ProxyStep(r, "primary",
        CatchProxy([rpc[r] EXCEPT !.primaryFailed = TRUE], backupRpcUrl))

\* The backup fetch of the try resolves.
BackupTryResolve(r, resp) ==
    ProxyStep(r, "backupTry",
        [rpc[r] EXCEPT !.pc = "json", !.backupFailed = ~resp.ok,
                       !.response = resp @@ [from |-> "backup"]])

\* The backup fetch of the try rejects: the catch runs.
BackupTryReject(r) ==
    ProxyStep(r, "backupTry",
        CatchProxy([rpc[r] EXCEPT !.backupFailed = TRUE], backupRpcUrl))

\* response.json() of the try settles: the body is forwarded with the
\* status of the response, or the parse throws and the catch runs.
JsonSettle(r) ==
    ProxyStep(r, "json",
        IF rpc[r].response.json
        THEN Send(rpc[r], rpc[r].response.status, FALSE)
        ELSE CatchProxy(MarkFailed(rpc[r], rpc[r].response.from),
                        backupRpcUrl))

\* The backup fetch of the catch resolves.
BackupCatchResolve(r, resp) ==
    ProxyStep(r, "backupCatch",
        [rpc[r] EXCEPT !.pc = "jsonCatch",
                       !.backupFailed = @ \/ ~resp.ok,
                       !.response = resp @@ [from |-> "backup"]])

\* The backup fetch of the catch rejects: 502.
BackupCatchReject(r) ==
    ProxyStep(r, "backupCatch",
        Send([rpc[r] EXCEPT !.backupFailed = TRUE], 502, TRUE))

\* backupResponse.json() settles: forwarded, or 502 when the parse throws.
JsonCatchSettle(r) ==
    ProxyStep(r, "jsonCatch",
        IF rpc[r].response.json
        THEN Send(rpc[r], rpc[r].response.status, FALSE)
        ELSE Send([rpc[r] EXCEPT !.backupFailed = TRUE], 502, TRUE))

InitProxy ==
    /\ now = 0
    /\ timers = {}
    /\ pollTimer = 0
    /\ calls = 0
    /\ lastCall = "none"
    /\ cycles = <<>>
    /\ store = {}
    /\ ledger = [p \in Pdas |-> 0]
    /\ changes = 0
    /\ programId = "SovProgram"
    /\ omitUndefined = TRUE
    /\ lastUp = NoUpsert
    /\ writes = 0
    /\ atStop = <<>>
    /\ derived = <<>>
    /\ rpc = <<>>
    /\ backupRpcUrl \in {"", "https://backup.rpc"}
    /\ pages = {}
    /\ lastPut = NoPut

NextProxy ==
    \/ \E m \in RpcMethods : ProxyPost(m)
    \/ \E r \in DOMAIN rpc : \E resp \in RpcResponses : PrimaryResolve(r, resp)
    \/ \E r \in DOMAIN rpc : PrimaryReject(r)
    \/ \E r \in DOMAIN rpc : \E resp \in RpcResponses : BackupTryResolve(r, resp)
    \/ \E r \in DOMAIN rpc : BackupTryReject(r)
    \/ \E r \in DOMAIN rpc : JsonSettle(r)
    \/ \E r \in DOMAIN rpc :
          \E resp \in RpcResponses : BackupCatchResolve(r, resp)
    \/ \E r \in DOMAIN rpc : BackupCatchReject(r)
    \/ \E r \in DOMAIN rpc : JsonCatchSettle(r)

SpecProxy == InitProxy /\ [][NextProxy]_vars

---------------------------------------------------------------------------
(* PUT /api/sovereign-pages/:sovereignId (routes/sovereign-pages.ts).      *)
(* A JSON value of the request is Undefined (the key is absent), a number  *)
(* or a string; a wallet is the string of a base58 text, a signature the   *)
(* string of a base64 text.  An ed25519 signature is the pair of the key   *)
(* that made it and the bytes it was made over: nacl verifies it against   *)
(* exactly that key and those bytes.                                       *)

JsNumber(n) == [k |-> "number", v |-> n]

JsString(s) == [k |-> "string", v |-> s]

JsObject(o) == [k |-> "object", v |-> o]

NaN == [k |-> "NaN"]

\* !x for the values a request field takes.
Falsy(x) ==
    \/ x.k = "undefined"
    \/ x.k = "NaN"
    \/ x.k = "number" /\ x.v = 0
    \/ x.k = "string" /\ x.v = <<>>

IsDigit(c) == c \in 48..57

RECURSIVE DigitsValue(_)
DigitsValue(s) ==
    IF s = <<>> THEN 0
    ELSE DigitsValue(SubSeq(s, 1, Len(s) - 1)) * 10 + (s[Len(s)] - 48)

RECURSIVE DigitsPrefix(_)
DigitsPrefix(s) ==
    IF s = <<>> \/ ~IsDigit(Head(s)) THEN <<>>
    ELSE <<Head(s)>> \o DigitsPrefix(Tail(s))

\* parseInt(s, 10) of a text without sign or blanks: the leading digits,
\* NaN when there are none.
parseInt(s) ==
    LET d == DigitsPrefix(s)
    IN  IF d = <<>> THEN NaN ELSE JsNumber(DigitsValue(d))

\* The conversion to number the operator `-` applies to its operand.
ToNumber(x) ==
    CASE x.k = "number" -> x
      [] x.k = "string" ->
            IF \A i \in 1..Len(x.v) : IsDigit(x.v[i])
            THEN JsNumber(DigitsValue(x.v)) ELSE NaN
      [] OTHER -> NaN

\* Math.abs(now - timestamp) > 5 * 60 * 1000; a comparison with NaN is
\* false.
FRESHNESS_MS == 5 * 60 * 1000

SignatureExpired(clock, timestamp) ==
    LET t == ToNumber(timestamp)
    IN  t # NaN /\ Max(clock - t.v, t.v - clock) > FRESHNESS_MS

\* ${x} in a template literal.
Interpolate(x) ==
    CASE x.k = "number" -> toString(x.v)
      [] x.k = "string" -> x.v
      [] OTHER -> <<>>

StrEditSovereign ==
    <<69, 100, 105, 116, 32, 83, 111, 118, 101, 114, 101, 105, 103, 110,
      32, 35>>

StrPageAt == <<32, 112, 97, 103, 101, 32, 97, 116, 32>>

\* `Edit Sovereign #${sovereignId} page at ${timestamp}`, UTF-8 encoded.
AuthMessage(sovereignId, timestamp) ==
    StrEditSovereign \o Interpolate(sovereignId) \o StrPageAt
        \o Interpolate(timestamp)

Sign(key, msg) == [signer |-> key, msg |-> msg]

toBase64(sig) == <<"base64", sig>>

\* new PublicKey(wallet): Some(the 32 bytes), Null when it throws.
NewPublicKey(wallet) ==
    IF wallet[1] = "base58" /\ Len(wallet[2]) = 32
    THEN Some(wallet[2]) ELSE Null

\* nacl.sign.detached.verify(messageBytes, sigBytes, publicKey).
Verify(messageBytes, sigBytes, publicKey) ==
    sigBytes.signer = publicKey /\ sigBytes.msg = messageBytes

verifyWalletAuth(body, clock) ==
    IF \/ Falsy(body.wallet) \/ Falsy(body.sovereignId)
       \/ Falsy(body.timestamp) \/ Falsy(body.signature)
    THEN [valid |-> FALSE, error |-> "Missing auth fields"]
    ELSE IF SignatureExpired(clock, body.timestamp)
    THEN [valid |-> FALSE, error |-> "Signature expired"]
    ELSE LET messageBytes == AuthMessage(body.sovereignId, body.timestamp)
             pubkey       == NewPublicKey(body.wallet.v)
             sigBytes     == body.signature.v[2]
         IN  IF pubkey = Null
             THEN [valid |-> FALSE, error |-> "Signature verification failed"]
             ELSE IF ~Verify(messageBytes, sigBytes, pubkey.v)
             THEN [valid |-> FALSE, error |-> "Invalid signature"]
             ELSE [valid |-> TRUE, error |-> ""]

\* requireCreatorAuth: 0 when it returns true, else the status it sent.
requireCreatorAuth(body, clock, sovereigns) ==
    LET auth  == verifyWalletAuth(body, clock)
        found == { d \in sovereigns : d.sovereignId = body.sovereignId.v }
    IN  IF ~auth.valid THEN 401
        ELSE IF found = {} THEN 404
        ELSE IF (CHOOSE d \in found : TRUE).creator # body.wallet.v THEN 403
        ELSE 0

SUMMARY_MAX == 2000

\* The validation of the page fields: Null for a 400, else updateData.
UpdateData(wallet, page) ==
    LET base == [creatorWallet |-> wallet.v]
    IN  IF page.v.summary = Undefined THEN Some(base)
        ELSE IF \/ page.v.summary.k # "string"
                \/ Len(page.v.summary.v) > SUMMARY_MAX
        THEN Null
        ELSE Some(base @@ [summary |-> page.v.summary.v])

\* The handler of router.put('/:sovereignId'): [status, coll] for the
\* request with URL parameter `param` and body `body` served at `clock`.
putSovereignPage(param, body, clock, sovereigns, coll) ==
    LET sovereignId == parseInt(param)
        req         == [body EXCEPT !.sovereignId = sovereignId]
        refused     == requireCreatorAuth(req, clock, sovereigns)
    IN  IF sovereignId = NaN THEN [status |-> 400, coll |-> coll]
        ELSE IF refused # 0 THEN [status |-> refused, coll |-> coll]
        ELSE IF body.page.k # "object" THEN [status |-> 400, coll |-> coll]
        ELSE LET updateData == UpdateData(body.wallet, body.page)
             IN  IF updateData = Null THEN [status |-> 400, coll |-> coll]
                 ELSE LET r == findOneAndUpdate(coll,
                                 [ filter |-> [sovereignId |-> sovereignId.v],
                                   set |-> updateData.v,
                                   upsert |-> TRUE,
                                   clock |-> clock ], TRUE)
                      IN  IF r.ok THEN [status |-> 200, coll |-> r.coll]
                          ELSE [status |-> 500, coll |-> coll]

\* The requests examined.  URL parameters: "1" (the sovereign of the
\* store), "2" (no such sovereign), "x" (not a number).
ParamInputs == { <<49>>, <<50>>, <<120>> }

CreatorKey == BaseRecord.creator

OtherKey == Key(22)

WalletInputs ==
    { Undefined, JsString(toBase58(CreatorKey)), JsString(toBase58(OtherKey)),
      JsString(toBase58(<<1, 2>>)) }

\* Timestamps sent at `clock`: none, the clock, one millisecond beyond
\* the window on either side, and a text that is not a number.
TimestampInputs(clock) ==
    { Undefined, JsNumber(clock), JsNumber(clock - FRESHNESS_MS - 1),
      JsNumber(clock + FRESHNESS_MS + 1), JsString(<<97, 98, 99>>) }

\* Signatures sent with timestamp t: none, the creator's over the message
\* of sovereign 1, another key's over it, the creator's over the message
\* of sovereign 2, and the creator's over another timestamp.
SignatureInputs(t) ==
    { Undefined,
      JsString(toBase64(Sign(CreatorKey, AuthMessage(JsNumber(1), t)))),
      JsString(toBase64(Sign(OtherKey, AuthMessage(JsNumber(1), t)))),
      JsString(toBase64(Sign(CreatorKey, AuthMessage(JsNumber(2), t)))),
      JsString(toBase64(Sign(CreatorKey,
                             AuthMessage(JsNumber(1), JsNumber(1))))) }

\* Pages sent: none, an empty object, a summary, a summary of 2001
\* characters; the other page fields are absent.
PageInputs ==
    { Undefined, JsObject([summary |-> Undefined]),
      JsObject([summary |-> JsString(<<104, 105>>)]),
      JsObject([summary |-> JsString([i \in 1..(SUMMARY_MAX + 1) |-> 97])]) }

\* A PUT request served at `now`.
PutPage(param, wallet, timestamp, signature, page) ==
    /\ \E r \in { putSovereignPage(param,
                     [ wallet |-> wallet, sovereignId |-> Undefined,
                       timestamp |-> timestamp, signature |-> signature,
                       page |-> page ], now, store, pages) } :
          /\ pages' = r.coll
          /\ lastPut' = [ status |-> r.status, param |-> param,
                          wallet |-> wallet, timestamp |-> timestamp,
                          signature |-> signature, at |-> now ]
    /\ UNCHANGED << now, timers, pollTimer, calls, lastCall, cycles, store,
                    ledger, changes, programId, omitUndefined, lastUp,
                    writes, atStop, derived, rpc, backupRpcUrl >>

\* The store holds sovereign 1, written by upsertSovereign.
InitPages ==
    /\ now = 0
    /\ timers = {}
    /\ pollTimer = 0
    /\ calls = 0
    /\ lastCall = "none"
    /\ cycles = <<>>
    /\ store = findOneAndUpdate({}, upsertSovereign(Pubkey(1),
                                       InputTable[1][1], 0), TRUE).coll
    /\ ledger = [p \in Pdas |-> 0]
    /\ changes = 0
    /\ programId = "SovProgram"
    /\ omitUndefined = TRUE
    /\ lastUp = NoUpsert
    /\ writes = 0
    /\ atStop = <<>>
    /\ derived = <<>>
    /\ rpc = <<>>
    /\ backupRpcUrl = ""
    /\ pages = {}
    /\ lastPut = NoPut

NextPages ==
    \/ \E param \in ParamInputs : \E wallet \in WalletInputs :
         \E timestamp \in TimestampInputs(now) :
           \E signature \in SignatureInputs(timestamp) :
             \E page \in PageInputs :
                PutPage(param, wallet, timestamp, signature, page)
    \/ IntervalPasses

SpecPages == InitPages /\ [][NextPages]_vars

---------------------------------------------------------------------------
(* Reconciliation of one account over the range of a field: the server     *)
(* boots with an account of a field family at the first address and runs   *)
(* its cycles against a ledger and a store that answer.                    *)

InitReconcile ==
    /\ InitCommon
    /\ omitUndefined = TRUE
    /\ programId = "SovProgram"
    /\ \E v \in FieldInputs :
          ledger = [p \in Pdas |-> IF p = 1 THEN v ELSE 0]

NextReconcile ==
    \/ ImportModule
    \/ ServerStart
    \/ \E t \in timers : WarmupFire(t)
    \/ \E t \in timers : IntervalFire(t)
    \/ \E c \in DOMAIN cycles : FetchResolve(c)
    \/ \E c \in DOMAIN cycles : UpsertSettle(c)
    \/ AdvanceClock

SpecReconcile == InitReconcile /\ [][NextReconcile]_vars

---------------------------------------------------------------------------
(* The server stopped while it runs: main() has called startChainSync, and *)
(* stopChainSync is called at any moment.  The event loop runs every       *)
(* callback that is due, and every awaited call settles.                   *)

\* The ledger holds an account whose data is cut short and a sovereign: a
\* batch of two.
InitStop ==
    /\ InitCommon
    /\ omitUndefined = TRUE
    /\ ledger = [p \in Pdas |-> IF p = 1 THEN 3 ELSE 1]
    /\ programId = "SovProgram"

\* Time passes up to the end of a sleep that is the next timer due, past
\* the horizon MaxTime of the ticks as well.
SleepAdvance ==
    /\ timers # {}
    /\ \A t \in timers : t.due > now
    /\ \E t \in timers :
          /\ t.kind = "sleep"
          /\ t.due > MaxTime
          /\ \A u \in timers : t.due <= u.due
          /\ now' = t.due
    /\ UNCHANGED << timers, pollTimer, calls, lastCall, cycles, store, ledger,
                    changes, programId, omitUndefined, atStop, derived,
                    routeVars, lastUp, writes >>

\* The one stopChainSync call of the behaviour, after the server started.
ServerStop ==
    /\ calls = 1
    /\ stopChainSync

\* The fetch errors of this specification: "HTTP 503" (retried) and
\* "fetch failed" (not retried).
StopErrors == {1, 3}

NextStop ==
    \/ ImportModule
    \/ ServerStart
    \/ ServerStop
    \/ \E t \in timers : WarmupFire(t)
    \/ \E t \in timers : IntervalFire(t)
    \/ \E t \in timers : SleepFire(t)
    \/ \E c \in DOMAIN cycles : FetchResolve(c)
    \/ \E c \in DOMAIN cycles : \E e \in StopErrors : FetchReject(c, e)
    \/ \E c \in DOMAIN cycles : UpsertSettle(c)
    \/ AdvanceClock
    \/ SleepAdvance

\* A fetch that is awaited settles (nothing obliges it to fail), an
\* upsert that is awaited settles, a timer that is due fires.
FairStop ==
    /\ WF_vars(\E t \in timers : WarmupFire(t))
    /\ WF_vars(\E t \in timers : IntervalFire(t))
    /\ WF_vars(\E t \in timers : SleepFire(t))
    /\ WF_vars(\E c \in DOMAIN cycles : FetchResolve(c))
    /\ WF_vars(\E c \in DOMAIN cycles : UpsertSettle(c))
    /\ WF_vars(AdvanceClock)
    /\ WF_vars(SleepAdvance)

SpecStop == InitStop /\ [][NextStop]_vars /\ FairStop

---------------------------------------------------------------------------
(* The mirror over time: the server polls a ledger whose accounts change   *)
(* until the last cycle of the behaviour starts, every fetch and every     *)
(* upsert succeeds, and a cycle is over before the next tick.              *)

\* What the first address can hold: an Active sovereign with or without
\* an activity check under way; the second: nothing, or the sovereign of
\* Variants in Bonding or Active.
SettlingValues(p) ==
    IF p = 1 THEN {RecordInput(3), RecordInput(5)} ELSE {0, 1, 2}

\* The on-chain program changes an account while a cycle is yet to start.
SettlingChange(p, v) ==
    /\ Len(cycles) < MaxCycles
    /\ v \in SettlingValues(p)
    /\ LedgerChange(p, v)

\* Time passes between two ticks, the cycle of the earlier one being over.
QuietAdvance ==
    /\ InFlight = {}
    /\ AdvanceClock

InitConverge ==
    /\ InitCommon
    /\ omitUndefined \in BOOLEAN
    /\ programId = "SovProgram"
    /\ \E v1 \in SettlingValues(1) : \E v2 \in SettlingValues(2) :
          ledger = [p \in Pdas |-> IF p = 1 THEN v1 ELSE v2]

NextConverge ==
    \/ ImportModule
    \/ ServerStart
    \/ \E t \in timers : WarmupFire(t)
    \/ \E t \in timers : IntervalFire(t)
    \/ \E c \in DOMAIN cycles : FetchResolve(c)
    \/ \E c \in DOMAIN cycles : UpsertSettle(c)
    \/ QuietAdvance
    \/ \E p \in Pdas : \E v \in SettlingValues(p) : SettlingChange(p, v)

\* The event loop runs a callback that is due and a settled promise's
\* continuation; nothing obliges the ledger to change.
FairConverge ==
    /\ WF_vars(ImportModule)
    /\ WF_vars(ServerStart)
    /\ WF_vars(\E t \in timers : WarmupFire(t))
    /\ WF_vars(\E t \in timers : IntervalFire(t))
    /\ WF_vars(\E c \in DOMAIN cycles : FetchResolve(c))
    /\ WF_vars(\E c \in DOMAIN cycles : UpsertSettle(c))
    /\ WF_vars(QuietAdvance)

SpecConverge == InitConverge /\ [][NextConverge]_vars /\ FairConverge

---------------------------------------------------------------------------
(* Properties *)

IntervalTimers == { t \in timers : t.kind = "interval" }

SleepTimers(c) == { t \in timers : t.kind = "sleep" /\ t.id = c }

\* Documents without the timestamps Mongoose maintains.
WithoutFields(rows, fields) ==
    { [f \in DOMAIN d \ fields |-> d[f]] : d \in rows }

\* C1: at most one sync cycle is in flight at any time; a tick that fires
\* while the previous cycle has not finished starts no new cycle.
C1_SingleFlight == Cardinality(InFlight) <= 1

\* C2: after any sequence of startChainSync / stopChainSync calls and timer
\* firings at most one repeating poll timer exists; a second start during
\* the warm-up of the first creates no second timer.
C2_OnePollTimer == Cardinality(IntervalTimers) <= 1

\* C3: once stopChainSync has been called no new cycle starts until a later
\* startChainSync call, also when stop is called during the warm-up delay.
C3_NoCycleAfterStop ==
    [][Len(cycles') > Len(cycles) => lastCall # "stop"]_vars

\* C4: applying upsertSovereign(pda, r) a second time, whatever time has
\* passed, leaves the stored row of pda as the first application left it
\* (stated here without updatedAt, which Mongoose itself maintains).
C4_UpsertIdempotent ==
    [][ ( /\ lastUp # NoUpsert
          /\ lastUp' = <<lastUp[1], lastUp[2], 1 - lastUp[3]>> )
        => WithoutFields(RowsOf(store', Pubkey(lastUp[1])), {"updatedAt"})
           = WithoutFields(RowsOf(store, Pubkey(lastUp[1])), {"updatedAt"})
      ]_vars

\* C5: after upsertSovereign(pda, r) succeeds every field of the stored row
\* of pda is determined by r alone: the row is the one the same upsert
\* leaves in an empty collection, so nothing an earlier sync or another
\* writer stored survives (createdAt and updatedAt set aside).
C5_FullOverwrite ==
    [][ ( lastUp' # lastUp /\ lastUp' # NoUpsert )
        => LET pda == Pubkey(lastUp'[1])
               q   == upsertSovereign(pda, InputTable[lastUp'[1]][lastUp'[2]],
                                      now)
           IN  WithoutFields(RowsOf(store', pda), {"createdAt", "updatedAt"})
               = WithoutFields(findOneAndUpdate({}, q, omitUndefined).coll,
                               {"createdAt", "updatedAt"})
      ]_vars

\* C6: a cycle goes through its whole batch whatever accounts fail to
\* decode: once it has returned, every fetched account has been processed,
\* exactly the undecodable ones were skipped, and every account whose
\* upsert the store applied has its row in the store.
C6_DecodeIsolation ==
    \A c \in DOMAIN cycles :
        LET cyc == cycles[c] IN
        cyc.pc = "done" =>
            /\ Len(cyc.outcomes) = Len(cyc.accounts)
            /\ \A j \in DOMAIN cyc.accounts :
                 /\ cyc.outcomes[j] = "decode" <=> ~Parsed(cyc.accounts[j]).ok
                 /\ cyc.outcomes[j] = "ok" =>
                        RowsOf(store, Pubkey(cyc.accounts[j].pubkey)) # {}

\* A cycle has returned whose first account failed to decode and whose
\* second account was upserted.
C6_Witness ==
    \E c \in DOMAIN cycles :
        /\ cycles[c].pc = "done"
        /\ cycles[c].outcomes = <<"decode", "ok">>
        /\ RowsOf(store, Pubkey(cycles[c].accounts[2].pubkey)) # {}

\* C7: the number a cycle returns is the number of fetched accounts whose
\* decode succeeded and whose upsert the store applied; an upsert the store
\* rejects is not counted and the accounts after it are still processed.
C7_CountIsSuccesses ==
    \A c \in DOMAIN cycles :
        LET cyc == cycles[c] IN
        cyc.pc = "done" =>
            /\ Len(cyc.outcomes) = Len(cyc.accounts)
            /\ cyc.result =
                 Cardinality({ j \in DOMAIN cyc.outcomes :
                                 /\ Parsed(cyc.accounts[j]).ok
                                 /\ cyc.outcomes[j] = "ok" })

\* A cycle has returned 1 for a batch whose first upsert the store rejected
\* and whose second it applied.
C7_Witness ==
    \E c \in DOMAIN cycles :
        /\ cycles[c].pc = "done"
        /\ cycles[c].outcomes = <<"store", "ok">>
        /\ cycles[c].result = 1

\* C8: when the fetch of a cycle fails for good (a non-retryable error, or
\* a transient one on the last attempt) the cycle returns 0 through its own
\* catch, having attempted no upsert; the step leaves the store, pollTimer
\* and the timers as they were, and the poll timer stays armed.
C8_FetchFailure ==
    [][ \A c \in DOMAIN cycles :
          ( /\ cycles[c].pc = "fetch"
            /\ cycles'[c].fails = cycles[c].fails + 1
            /\ cycles'[c].pc # "sleep" )
          => /\ cycles'[c].pc = "done"
             /\ cycles'[c].result = 0
             /\ cycles'[c].outcomes = <<>>
             /\ store' = store
             /\ pollTimer' = pollTimer
             /\ timers' = timers
             /\ \E t \in timers' : t.kind = "interval" /\ t.id = pollTimer'
      ]_vars

\* A cycle has failed on its third attempt and another on a non-retryable
\* error of its first attempt.
C8_Witness ==
    /\ \E c \in DOMAIN cycles :
         /\ cycles[c].pc = "done"
         /\ cycles[c].fails = MAX_RETRIES
         /\ cycles[c].result = 0
    /\ \E c \in DOMAIN cycles :
         /\ cycles[c].pc = "done"
         /\ cycles[c].fails = 1
         /\ cycles[c].result = 0

\* The delay the retry policy prescribes after the k-th failed attempt.
PrescribedDelay(k) == IF k = 1 THEN 5000 ELSE 10000

\* C9: a cycle makes at most 3 fetch attempts; after the k-th failure it
\* sleeps exactly 5 s (k = 1) or 10 s (k = 2), and attempt k + 1 is not
\* issued before that delay has elapsed.
C9_RetryPolicy ==
    \A c \in DOMAIN cycles :
        LET cyc == cycles[c] IN
        /\ cyc.attempt \in 1..3
        /\ cyc.fails \in {cyc.attempt - 1, cyc.attempt}
        /\ cyc.pc = "sleep" =>
             /\ cyc.attempt < 3
             /\ cyc.fails = cyc.attempt
             /\ \E t \in SleepTimers(c) :
                   t.due = cyc.failedAt + PrescribedDelay(cyc.attempt)
        /\ (cyc.attempt > 1 /\ cyc.fails = cyc.attempt - 1) =>
             cyc.triedAt >= cyc.failedAt + PrescribedDelay(cyc.attempt - 1)

\* A cycle is at its third attempt, issued 10 s after its second failure.
C9_Witness ==
    \E c \in DOMAIN cycles :
        /\ cycles[c].attempt = 3
        /\ cycles[c].pc = "fetch"
        /\ cycles[c].triedAt = cycles[c].failedAt + 10000

\* The errors of FetchErrors that are transient: "HTTP 503" and "timeout".
TransientErrors == {1, 2}

\* C10: a fetch error that is not transient is not retried: the cycle ends
\* on that attempt, with that error, without a sleep or a further attempt,
\* whatever the number of the attempt.
C10_NonTransientNotRetried ==
    \A c \in DOMAIN cycles :
        LET cyc == cycles[c] IN
        (cyc.lastErr # 0 /\ cyc.lastErr \notin TransientErrors) =>
            /\ cyc.pc = "done"
            /\ cyc.err = cyc.lastErr
            /\ cyc.fails = cyc.attempt
            /\ cyc.triedAt <= cyc.failedAt
            /\ SleepTimers(c) = {}

\* A cycle has ended on a non-transient error of its second attempt.
C10_Witness ==
    \E c \in DOMAIN cycles :
        /\ cycles[c].pc = "done"
        /\ cycles[c].lastErr = 3
        /\ cycles[c].attempt = 2

\* C11: a cycle whose fetch fails on attempts 1 and 2 with a transient
\* error and succeeds on attempt 3 completes normally: it processes every
\* account that attempt returned, returns the number of them the store
\* upserted, and has slept 15 s in all (5 s + 10 s).
C11_ThirdAttemptSucceeds ==
    \A c \in DOMAIN cycles :
        LET cyc == cycles[c] IN
        (cyc.fails = 2 /\ cyc.pc \in {"upsert", "done"} /\ cyc.err = 0) =>
            /\ cyc.attempt = 3
            /\ cyc.slept = 15000
            /\ cyc.triedAt >= cyc.startedAt + 15000
            /\ cyc.pc = "done" =>
                 /\ Len(cyc.outcomes) = Len(cyc.accounts)
                 /\ cyc.result =
                      Cardinality({ j \in DOMAIN cyc.outcomes :
                                      cyc.outcomes[j] = "ok" })

\* A cycle failed twice, the second time on "HTTP 503", fetched two
\* accounts on its third attempt and returned 1 for them.
C11_Witness ==
    \E c \in DOMAIN cycles :
        /\ cycles[c].pc = "done"
        /\ cycles[c].fails = 2
        /\ cycles[c].lastErr = 1
        /\ cycles[c].err = 0
        /\ Len(cycles[c].accounts) = 2
        /\ cycles[c].result = 1
        /\ cycles[c].slept = 15000

\* The rows the store holds for the first address.
FirstRows == RowsOf(store, Pubkey(1))

\* Every cycle that has returned found the account of the first address
\* and upserted it.
ReturnedCyclesUpserted ==
    \A c \in DOMAIN cycles :
        cycles[c].pc = "done" =>
            cycles[c].outcomes = <<"ok">> /\ cycles[c].result = 1

SomeCycleReturned == \E c \in DOMAIN cycles : cycles[c].pc = "done"

\* C12: for every status code in 10..255 reconciliation stores the status
\* label "Unknown", and the record is upserted all the same: decode and
\* upsert do not throw because of the code.
C12_UnknownStatus ==
    \A s \in 10..MaxByte :
        ledger[1] = StateInput(s) =>
            /\ ReturnedCyclesUpserted
            /\ SomeCycleReturned => FirstRows # {}
            /\ \A d \in FirstRows : d.status = "Unknown"

\* An account with status code 10 or 255 has been reconciled.
C12_Witness ==
    /\ ledger[1] \in {StateInput(10), StateInput(255)}
    /\ SomeCycleReturned
    /\ \E d \in FirstRows : d.status = "Unknown"

\* C13: for every type code in 2..255 reconciliation stores the label
\* "Unknown" for the record's type, not the label of a known type.
C13_UnknownType ==
    \A t \in 2..MaxByte :
        ledger[1] = TypeInput(t) =>
            \A d \in FirstRows : d.sovereignType = "Unknown"

\* ceil(a / b) for b > 0
CeilDiv(a, b) == -((-a) \div b)

\* C14: for every decoded bondDuration d the stored bondDurationDays is
\* max(1, ceil(d / 86400)): 86401 yields 2, 0 yields 1.
C14_DaysRoundedUp ==
    ledger[1] \in DurationInputs =>
        \A d \in FirstRows :
            d.bondDurationDays =
                Max(1, CeilDiv(DurationOf(ledger[1]), 86400))

\* The ordered list of status labels, code 0 first.
OrderedStatusLabels ==
    << "Bonding", "Finalizing", "PoolCreated", "Recovery", "Active",
       "Unwinding", "Unwound", "Failed", "Halted", "Retired" >>

\* C15: for every status code s in 0..9 the stored status is the s-th label
\* of Bonding, Finalizing, PoolCreated, Recovery, Active, Unwinding,
\* Unwound, Failed, Halted, Retired; a duration of n >= 1 days exactly is
\* stored as n days; the record with id 7, status code 4 and duration
\* 864000 s is stored with status "Active" and bondDurationDays 10.
C15_LabelsAndWholeDays ==
    /\ \A s \in 0..9 :
         ledger[1] = StateInput(s) =>
            /\ ReturnedCyclesUpserted
            /\ \A d \in FirstRows : d.status = OrderedStatusLabels[s + 1]
    /\ \A n \in 1..MaxDays :
         ledger[1] = DurationInput(n, 1) =>
            /\ ReturnedCyclesUpserted
            /\ \A d \in FirstRows : d.bondDurationDays = n
    /\ ledger[1] = StateInput(4) =>
         \A d \in FirstRows :
            /\ d.sovereignId = 7
            /\ d.status = "Active"
            /\ d.bondDurationDays = 10

\* The record with id 7, status code 4 and duration 864000 s is stored.
C15_Witness ==
    /\ ledger[1] = StateInput(4)
    /\ RecordOf(1, ledger[1]).bondDuration = 864000
    /\ SomeCycleReturned
    /\ \E d \in FirstRows :
         d.sovereignId = 7 /\ d.status = "Active" /\ d.bondDurationDays = 10

\* C20: an account whose first 8 bytes differ from the discriminator fails
\* to decode, however well-formed the rest: no record is returned for it
\* and no upsert is performed.
C20_DiscriminatorChecked ==
    ledger[1] \in PrefixInputs =>
        /\ FirstRows = {}
        /\ \A c \in DOMAIN cycles :
             cycles[c].pc = "done" => cycles[c].outcomes = <<"decode">>

\* The addresses the store holds a row for.
StoredAddresses(coll) ==
    { d.publicKey : d \in { x \in coll : "publicKey" \in DOMAIN x } }

\* C16: the owning address is the primary key of the store: there is at
\* most one row per address; an upsert of an address not yet present
\* creates exactly one row, an upsert of an address already present leaves
\* the number of rows as it was.
C16_AddressIsPrimaryKey ==
    [][ /\ \A p \in Pdas : Cardinality(RowsOf(store', Pubkey(p))) <= 1
        /\ Cardinality(StoredAddresses(store')) = Cardinality(store')
        /\ (lastUp' # lastUp /\ lastUp' # NoUpsert) =>
              LET pda == Pubkey(lastUp'[1]) IN
              /\ Cardinality(RowsOf(store', pda)) = 1
              /\ Cardinality(store') =
                    Cardinality(store)
                      + (IF RowsOf(store, pda) = {} THEN 1 ELSE 0)
      ]_vars

\* Two upserts in a row have left one row: the second found its address
\* present.
C16_Witness ==
    /\ Cardinality(store) = 1
    /\ writes = 2
    /\ lastUp # NoUpsert
    /\ lastUp[3] = 0

\* C17: the sync engine never deletes a record: the set of addresses in
\* the store only grows, whether a synced account is missing from a later
\* fetch, fails to decode, has reached a terminal status, or the fetch
\* fails.
C17_NeverDeletes ==
    [][ /\ StoredAddresses(store) \subseteq StoredAddresses(store')
        /\ Cardinality(store) <= Cardinality(store')
      ]_vars

\* The second cycle returned from a fetch that no longer held an account
\* whose row the first cycle stored, and the row is there.
C17_Witness ==
    \E p \in Pdas :
        /\ RowsOf(store, Pubkey(p)) # {}
        /\ ledger[p] = 0
        /\ Len(cycles) = 2
        /\ cycles[2].pc = "done"
        /\ cycles[2].err = 0
        /\ \A j \in DOMAIN cycles[2].accounts :
              cycles[2].accounts[j].pubkey # p

C19_NoPollingWithoutProgramId ==
    programId = "" =>
        /\ timers = {}
        /\ pollTimer = 0
        /\ cycles = <<>>

\* The module was imported with no program id configured.
C19_Witness ==
    /\ programId = ""
    /\ lastCall = "threw"
    /\ timers = {}

\* C28: every status value the sync engine writes to the store is a member
\* of the status enum the Sovereign schema declares, for every decodable
\* status code.
C28_StatusWithinEnum ==
    \A d \in store : "status" \in DOMAIN d => d.status \in SovereignStatusEnum

\* C21: a buffer shorter than the layout requires fails to decode and no
\* upsert is performed for its account, at every truncation point: inside
\* an address, a string or an optional timestamp as well.
C21_TruncationFails ==
    \A c \in DOMAIN cycles : \A j \in DOMAIN cycles[c].accounts :
        LET acc == cycles[c].accounts[j] IN
        acc.data \in TruncInputs =>
            /\ Len(AccountData(acc.pubkey, acc.data)) < Len(FullAccountData)
            /\ ~Parsed(acc).ok
            /\ j <= Len(cycles[c].outcomes) => cycles[c].outcomes[j] = "decode"
            /\ ~(cycles[c].pc = "upsert" /\ cycles[c].i = j)
            /\ RowsOf(store, Pubkey(acc.pubkey)) = {}

\* A cycle has returned from a batch whose account lacked its last byte
\* alone.
C21_Witness ==
    \E c \in DOMAIN cycles :
        /\ cycles[c].pc = "done"
        /\ cycles[c].outcomes = <<"decode">>
        /\ cycles[c].accounts[1].data = TruncInput(Len(FullAccountData) - 1)
        /\ store = {}

\* C22: a record of valid field values, written in the documented layout
\* and decoded, comes back with every field as it was: strings without
\* their trailing NULs, each optional timestamp present or absent as
\* written.
C22_RoundTrip ==
    \A c \in DOMAIN cycles : \A j \in DOMAIN cycles[c].accounts :
        LET acc == cycles[c].accounts[j] IN
        /\ acc.data \in RecordInputs =>
              /\ Parsed(acc).ok
              /\ Parsed(acc).rec =
                    [ValidRecords[acc.data - 6000]
                        EXCEPT !.sovereignId = 6 + acc.pubkey]
        /\ acc.data \in StateInputs \cup TypeInputs \cup DurationInputs =>
              /\ Parsed(acc).ok
              /\ Parsed(acc).rec = RecordOf(acc.pubkey, acc.data)

\* A cycle has upserted the record written with NUL-padded strings and
\* both optional timestamps present.
C22_Witness ==
    \E c \in DOMAIN cycles :
        /\ cycles[c].pc = "done"
        /\ cycles[c].outcomes = <<"ok">>
        /\ cycles[c].accounts[1].data = RecordInput(1)
        /\ WrittenRecord(1).name # ValidRecords[1].name
        /\ store # {}

\* The index of a field in the layout, and the offset at which the
\* on-chain program wrote it in the account of a record.
LayoutIndex(name) ==
    CHOOSE i \in DOMAIN Layout : Layout[i].kind # "skip" /\ Layout[i].name = name

WrittenOffset(rec, name) ==
    Len(Encode(rec)) - Len(EncodeFrom(rec, LayoutIndex(name)))

FieldsAfterOptions ==
    { "lastActivity", "activityCheckInitiated", "activityCheckTimestamp",
      "unwindSolBalance", "unwindTokenBalance", "lastActivityTimestamp",
      "createdAt", "finalizedAt", "bump" }

\* What C26 says of the optional timestamp `name` of an account.
OptionReadAsWritten(rec, data, name) ==
    LET o == WrittenOffset(rec, name)
        r == readOptionI64(data, o)
    IN  /\ data[o + 1] \in {0, 1}
        /\ data[o + 1] = 0 => r = <<Null, 1>>
        /\ data[o + 1] = 1 => r = <<Some(readI64LE(data, o + 1)), 9>>
        /\ r[1] = rec[name]

\* C26: a presence tag of 0 reads as absent and takes 1 byte, a tag of 1
\* reads as the signed 64-bit value after it and takes 9 bytes, and the
\* fields after unwoundAt and activityCheckInitiatedAt are read where the
\* sum of those widths puts them.
C26_OptionWidths ==
    \A c \in DOMAIN cycles : \A j \in DOMAIN cycles[c].accounts :
        LET acc  == cycles[c].accounts[j]
            rec  == RecordOf(acc.pubkey, acc.data)
            data == AccountData(acc.pubkey, acc.data)
        IN  acc.data \in RecordInputs =>
              /\ OptionReadAsWritten(rec, data, "unwoundAt")
              /\ OptionReadAsWritten(rec, data, "activityCheckInitiatedAt")
              /\ Parsed(acc).ok
              /\ \A f \in FieldsAfterOptions : Parsed(acc).rec[f] = rec[f]
              /\ WrittenOffset(rec, "bump") + 1 = Len(data)

\* A cycle has decoded the account whose unwoundAt is present and whose
\* activityCheckInitiatedAt is absent.
C26_Witness ==
    \E c \in DOMAIN cycles :
        /\ cycles[c].accounts # <<>>
        /\ cycles[c].accounts[1].data = RecordInput(2)
        /\ cycles[c].outcomes = <<"ok">>
        /\ Parsed(cycles[c].accounts[1]).rec.unwoundAt = Some(250)
        /\ Parsed(cycles[c].accounts[1]).rec.activityCheckInitiatedAt = Null

\* The row upsertSovereign leaves in an empty collection for what address
\* p holds on the ledger: the normalized form of its ledger state.
NormalizedRow(p) ==
    findOneAndUpdate({}, upsertSovereign(Pubkey(p),
                                         ParsedTable[p][ledger[p]].rec, now),
                     omitUndefined).coll

Converged ==
    \A p \in Pdas :
        (ledger[p] # 0 /\ ParsedTable[p][ledger[p]].ok) =>
            WithoutFields(RowsOf(store, Pubkey(p)), {"createdAt", "updatedAt"})
            = WithoutFields(NormalizedRow(p), {"createdAt", "updatedAt"})

AllSleepTimers == { t \in timers : t.kind = "sleep" }

\* C25: a cycle that is in flight when stopChainSync is called is not
\* aborted: the call leaves it and its pending sleep as they are, it goes
\* on from the account it had reached, every account of its batch is
\* processed and upserted after the stop, and it terminates.
C25_InFlightSurvivesStop ==
    /\ [][ (lastCall' = "stop" /\ calls' # calls) =>
              /\ cycles' = cycles
              /\ AllSleepTimers' = AllSleepTimers
              /\ DOMAIN atStop' = InFlight ]_vars
    /\ [](\A c \in DOMAIN atStop :
            /\ atStop[c].processed <= Len(cycles[c].outcomes)
            /\ (cycles[c].pc = "done" /\ cycles[c].err = 0) =>
                  /\ Len(cycles[c].outcomes) = Len(cycles[c].accounts)
                  /\ \A j \in DOMAIN cycles[c].accounts :
                        cycles[c].outcomes[j] = "ok" =>
                           RowsOf(store, Pubkey(cycles[c].accounts[j].pubkey))
                              # {})
    /\ \A c \in 1..MaxCycles :
          (c \in DOMAIN atStop) ~> (c \in DOMAIN cycles /\ cycles[c].pc = "done")

\* A cycle that was awaiting the upsert of its second account when stop
\* was called has returned, the upsert applied.
C25_Witness ==
    \E c \in DOMAIN atStop :
        /\ lastCall = "stop"
        /\ atStop[c].pc = "upsert"
        /\ atStop[c].processed = 1
        /\ cycles[c].pc = "done"
        /\ cycles[c].outcomes = <<"decode", "ok">>
        /\ RowsOf(store, Pubkey(cycles[c].accounts[2].pubkey)) # {}

\* The cycles other than c whose upsert of address p the store has applied.
AppliedTo(c, p) ==
    { c2 \in DOMAIN cycles \ {c} :
        \E j \in DOMAIN cycles[c2].outcomes :
            /\ cycles[c2].outcomes[j] = "ok"
            /\ cycles[c2].accounts[j].pubkey = p }

\* C27: the stored row of an address is never replaced by a snapshot that
\* was fetched earlier than the one the row holds: whenever the store
\* applies the upsert of a cycle, no cycle that fetched later has already
\* written that address.
C27_NoStaleOverwrite ==
    [][ \A c \in DOMAIN cycles :
          ( /\ cycles[c].pc = "upsert"
            /\ cycles'[c].outcomes = Append(cycles[c].outcomes, "ok") )
          => \A c2 \in AppliedTo(c, cycles[c].accounts[cycles[c].i].pubkey) :
                cycles[c2].fetchedAt <= cycles[c].fetchedAt
      ]_vars

Proxied == { r \in DOMAIN rpc : rpc[r].primaryCalls > 0 }

\* C29: for every proxied request the backup endpoint is contacted only
\* after the attempt on the primary failed and at most once, at most one
\* response is sent (exactly one once the handler has returned), and the
\* handler's own 502 is sent only when the primary failed and the backup,
\* if one is configured, failed as well.
C29_ProxyFallback ==
    \A r \in Proxied :
        LET req == rpc[r] IN
        /\ req.backupCalls <= 1
        /\ req.backupCalls > 0 => req.primaryFailed
        /\ Len(req.sent) <= 1
        /\ req.pc = "done" => Len(req.sent) = 1
        /\ \A k \in DOMAIN req.sent :
              (req.sent[k].own /\ req.sent[k].status = 502) =>
                  /\ req.primaryFailed
                  /\ backupRpcUrl # "" => req.backupFailed

\* What the claim requires of a request that wrote a page: a signature by
\* the request's wallet over the message of the URL's sovereign and the
\* request's timestamp, a timestamp within five minutes of the clock, and
\* a wallet that is the stored creator of that sovereign.
PutAuthorized(put) ==
    LET id == parseInt(put.param)
    IN  /\ id # NaN
        /\ put.wallet.k = "string" /\ put.signature.k = "string"
        /\ NewPublicKey(put.wallet.v) # Null
        /\ Verify(AuthMessage(id, put.timestamp), put.signature.v[2],
                  NewPublicKey(put.wallet.v).v)
        /\ ToNumber(put.timestamp) # NaN
        /\ Max(put.at - ToNumber(put.timestamp).v,
               ToNumber(put.timestamp).v - put.at) <= FRESHNESS_MS
        /\ \E d \in store : /\ d.sovereignId = id.v
                            /\ d.creator = put.wallet.v

\* C30: a PUT creates or modifies a sovereign page only if the request
\* carries a valid signature by its wallet over the message built from the
\* URL's sovereign id and the timestamp, the timestamp is within 5 minutes
\* of the server clock, and the wallet is the stored creator of that
\* sovereign; a request answered 401, 404 or 403 leaves the page store
\* unchanged.
C30_PutRequiresCreatorAuth ==
    [][ /\ (pages' # pages => PutAuthorized(lastPut'))
        /\ (lastPut' # lastPut /\ lastPut'.status \in {401, 404, 403}
              => pages' = pages) ]_vars

====
